---- MODULE Spec2Model ----
(***************************************************************************)
(* Order construction, signing and settlement workflows of the demo        *)
(* helpers (ManualLimitOrderDemo, Fixed1inchDemo, OfficialSDKDemo,         *)
(* LimitOrderDemo, WorkingLimitOrderDemo, Working1inchLimitOrder) and of   *)
(* the RobustSwapDemo component.                                           *)
(*                                                                         *)
(* One behaviour is one page session: the helper (variant) and the amount  *)
(* the user entered are fixed, and the user starts up to MaxRuns runs.     *)
(* Every await of a handler is one step; the wallet, the chain and the     *)
(* RPC node answer each step with success or a thrown error.               *)
(*                                                                         *)
(* Amounts are counted in the unit the user enters; keccak256 is modelled  *)
(* as an injective function: a hash is the record of what was hashed.      *)
(***************************************************************************)
EXTENDS Integers, Sequences, FiniteSets, TLC

(***************************************************************************)
(* Bounds of the model.                                                    *)
(***************************************************************************)
MaxAmount == 2
MaxRuns == 2
MaxRandom == 1
MaxQuote == 2
MaxExpectedOut == 21
MaxSetBits == 2
MaxOrders == 6
MaxCalls == 3
MaxRounds == 3
MaxStarts == 3
MaxRequests == 4

(***************************************************************************)
(* Program constants.                                                      *)
(***************************************************************************)
WETH_ADDRESS == "0xC02a"
USDC_ADDRESS == "0xA0b8"
ETH_ADDRESS == "0xEeee"
LIMIT_ORDER_PROTOCOL == "0x1111"
UNISWAP_ROUTER == "0x7a25"
AGGREGATION_ROUTER_V5 == "0x1111254"
Wallet == "wallet"

UsdcPerEth == 2500
MsPerSecond == 1000
RandomRange == 1000
ExpirationSeconds == 3600
ExpirationShift == 160
ExpirationWidth == 40
DaySeconds == 86400
DeadlineSeconds == 1200
SlippageNumerator == 95
SlippageDenominator == 100
OtherAccount == "wallet account 2"
MaxUint256 == 2147483647

\* DOMAIN of ManualLimitOrderDemo
DOMAIN_Manual ==
  [name |-> "1inch Limit Order Protocol", version |-> "4", chainId |-> 1,
   verifyingContract |-> LIMIT_ORDER_PROTOCOL]

\* DOMAIN of Fixed1inchDemo, and the domain createManualOrderDemo builds
DOMAIN_Fixed ==
  [name |-> "Limit Order Protocol", version |-> "4", chainId |-> 1,
   verifyingContract |-> LIMIT_ORDER_PROTOCOL]

\* ORDER_TYPE.Order: the typed fields of the signed message, in declared order
ORDER_TYPE ==
  <<"salt", "maker", "receiver", "makerAsset", "takerAsset",
    "makingAmount", "takingAmount", "makerTraits">>

\* the order tuple of the fillOrder ABI of LimitOrderDemo and
\* WorkingLimitOrderDemo
LIMIT_ORDER_ABI_Order ==
  <<"maker", "receiver", "makerAsset", "takerAsset",
    "makingAmount", "takingAmount", "makerTraits">>

EIP712DomainType ==
  "EIP712Domain(string name,string version,uint256 chainId,address verifyingContract)"

OrderTypeString ==
  "Order(uint256 salt,address maker,address receiver,address makerAsset,address takerAsset,uint256 makingAmount,uint256 takingAmount,uint256 makerTraits)"

(***************************************************************************)
(* Orders. makerTraits is the set of bit positions that are 1 in the       *)
(* uint256.                                                                *)
(***************************************************************************)
NoOrder ==
  [salt |-> 0, maker |-> "", receiver |-> "", makerAsset |-> "",
   takerAsset |-> "", makingAmount |-> 0, takingAmount |-> 0,
   makerTraits |-> {}]

\* the values of the named fields of an order, in the order of the names
FieldValues(o, names) == [i \in 1..Len(names) |-> o[names[i]]]

\* the bit positions that are 1 in n, for n below 2^31
BitsOf(n) == {i \in 0..30 : (n \div (2 ^ i)) % 2 = 1}

\* value << shift, as bit positions
ShiftLeft(n, shift) == {i + shift : i \in BitsOf(n)}

(***************************************************************************)
(* Hashing.                                                                *)
(***************************************************************************)
NoDomainSeparator ==
  [typeHash |-> "", name |-> "", version |-> "", chainId |-> 0,
   verifyingContract |-> ""]

NoHash ==
  [prefix |-> "none", domainSeparator |-> NoDomainSeparator,
   structHash |-> [typeHash |-> "", values |-> <<>>]]

\* keccak256(abi.encode(8 fields)): no prefix, no domain, no type hash
createOrderHash(order) ==
  [prefix |-> "",
   domainSeparator |-> NoDomainSeparator,
   structHash |-> [typeHash |-> "", values |-> FieldValues(order, ORDER_TYPE)]]

\* keccak256(abi.encode(typeHash, name hash, version hash, chainId, contract))
DomainSeparator(domain) ==
  [typeHash |-> EIP712DomainType, name |-> domain.name,
   version |-> domain.version, chainId |-> domain.chainId,
   verifyingContract |-> domain.verifyingContract]

\* keccak256("\x19\x01" ++ domainSeparator ++ structHash)
generateOrderHash(orderStructure, domain) ==
  [prefix |-> "\\x19\\x01",
   domainSeparator |-> DomainSeparator(domain),
   structHash |-> [typeHash |-> OrderTypeString,
                   values |-> FieldValues(orderStructure, ORDER_TYPE)]]

\* the settlement contract's hashOrder: the typed-data digest of the order
\* under the contract's domain
hashOrder(orderStruct, domain) ==
  [prefix |-> "\\x19\\x01",
   domainSeparator |->
     [typeHash |-> EIP712DomainType, name |-> domain.name,
      version |-> domain.version, chainId |-> domain.chainId,
      verifyingContract |-> domain.verifyingContract],
   structHash |-> [typeHash |-> OrderTypeString,
                   values |-> FieldValues(orderStruct, ORDER_TYPE)]]

(***************************************************************************)
(* Traits builders.                                                        *)
(***************************************************************************)
\* Fixed1inchDemo.createMakerTraits: bits 255 and 254
createMakerTraits == {255} \cup {254}

\* bits << shift, on bit positions: BigInt has no width to overflow
ShiftBits(bits, shift) == {i + shift : i \in bits}

\* the flags and the expiration that reach the result unchanged are lost
\* when nothing is shifted
UnshiftedMakerTraits(expirationBits) == ({0} \cup {1}) \cup expirationBits

\* createProperMakerTraits from its expiration on: bit 0, bit 1, and the
\* expiration shifted to bit 160
ProperMakerTraits(expirationBits) ==
  ({0} \cup {1}) \cup ShiftBits(expirationBits, ExpirationShift)

\* createAdvancedMakerTraits from its expiration on: bit 255, bit 254, and
\* the expiration shifted to bit 160
AdvancedMakerTraits(expirationBits) ==
  ({255} \cup {254}) \cup ShiftBits(expirationBits, ExpirationShift)

\* Working1inchLimitOrder.createProperMakerTraits at time t (ms)
createProperMakerTraits(t) ==
  ProperMakerTraits(BitsOf((t \div MsPerSecond) + ExpirationSeconds))

\* Working1inchLimitOrder.createAdvancedMakerTraits at time t (ms)
createAdvancedMakerTraits(t) ==
  AdvancedMakerTraits(BitsOf((t \div MsPerSecond) + ExpirationSeconds))

(***************************************************************************)
(* State.                                                                  *)
(***************************************************************************)
VARIABLES
  variant,        \* the helper the page runs
  amount,         \* the amount the user entered
  runs,           \* runs started so far
  now,            \* Date.now(), in ms
  balance,        \* the wallet's balance of the offered asset
  usdcBalance,    \* the wallet's USDC balance
  usdcAllowance,  \* USDC allowance of the settlement contract
  wethAllowance,  \* WETH allowance of the settlement contract
  routerAllowance,\* WETH allowance of the Uniswap router
  pc,             \* the await the running handler is at
  order,          \* the order built by the run
  signed,         \* the message handed to signTypedData
  signature,      \* the signature the wallet returned
  orderHash,      \* the order hash the run reports
  contractHash,   \* what contract.hashOrder returned to the run
  submitted,      \* the order struct handed to fillOrder
  log,            \* what the run has done so far, in order
  caught,         \* the error a catch block of the run holds
  attempt,        \* runHackathonDemo: in its try block or in its catch block
  quote,          \* amounts[1] of the last getAmountsOut
  fallbackResult, \* what executeFallbackDemo returned to fillOrderAsTaker
  fillResult,     \* what fillOrderAsTaker delivered to the page
  startBalance,   \* the balance of the offered asset when the run started
  result,         \* the outcome delivered to the caller
  built,          \* every order built in the session, with its run
  amountsOut,     \* what the Uniswap pair pays for the amount, in USDC
  account,        \* the account selected in the wallet
  walletAddress,  \* the address runCompleteDemo read from its signer
  signer,         \* the account of the signer createLimitOrder fetched
  pending,        \* transactions sent and not yet mined
  swapCall,       \* the arguments of the router swap the run called
  startChain,     \* balances and allowances when the run started
  expiry,         \* the expiration a traits builder is called with, as bits
  traits,         \* the value the traits builder returned, as bits
  builder,        \* the traits builder that was called, "" when none
  isLoading,      \* Working1inchDemo: createAndExecuteOrder is running
  isFillingOrder, \* Working1inchDemo: fillExistingOrder is running
  pageResult,     \* Working1inchDemo: the order of its result, 0 for null
  pageFillResult, \* Working1inchDemo: the order of its fillResult, 0 for null
  creating,       \* a runCompleteDemo call is in flight
  filling,        \* the order a fillOrderAsTaker call in flight fills, or 0
  orders,         \* orders the page has asked for so far
  ethBalance,     \* convertEthToWeth: the signer's ETH
  wethBalance,    \* convertEthToWeth: the signer's WETH
  requiredAmount, \* convertEthToWeth: parseEther(ethAmount)
  currentBalance, \* convertEthToWeth: the WETH balance it read
  convertPc,      \* convertEthToWeth: the await the call is at
  convertCalls,   \* convertEthToWeth calls started so far
  firstSuccess,   \* the first call that returned success, 0 when none has
  deposits,       \* the deposit transactions sent, with their call
  watching,       \* Working1inchRelayer: this.watching
  watchInterval,  \* Working1inchRelayer: this.watchInterval, 0 for undefined
  timers,         \* the interval timers that are active
  timersCreated,  \* setInterval calls so far
  startCalls,     \* startWatching calls so far
  rounds,         \* where each checkForProfitableOrders call is
  fillCalls,      \* the fillOrder calls of the relayer, with this.watching
  fills,          \* the fillOrder transactions the relayer submitted
  ethAmount,      \* RobustSwapDemo page: the amount entered
  pageQuote,      \* RobustSwapDemo page: the quote state
  quoteRequests,  \* the getQuote calls awaiting the router
  quotesSent      \* getQuote calls that reached the router so far

\* the traits builders called on their own
traitsCall == <<expiry, traits, builder>>
\* what lives beside the helper the page runs
\* the Working1inchDemo component and the helper calls it has in flight
page ==
  <<isLoading, isFillingOrder, pageResult, pageFillResult, creating, filling,
    orders>>
\* convertEthToWeth and the chain state it works on
convert ==
  <<ethBalance, wethBalance, requiredAmount, currentBalance, convertPc,
    convertCalls, firstSuccess, deposits>>
\* one Working1inchRelayer, its timers and its polling rounds
relayer ==
  <<watching, watchInterval, timers, timersCreated, startCalls, rounds,
    fillCalls, fills>>
\* the amount field and the quote of a RobustSwapDemo page
quotePage == <<ethAmount, pageQuote, quoteRequests, quotesSent>>
components == <<traitsCall, page, convert, relayer, quotePage>>
session ==
  <<variant, amount, runs, startBalance, amountsOut, startChain, components>>
\* the state of the helper runs
helpers ==
  <<variant, amount, runs, startBalance, amountsOut, startChain, now, account,
    walletAddress, signer, pending, swapCall, balance, usdcBalance,
    usdcAllowance, wethAllowance, routerAllowance, pc, order, signed,
    signature, orderHash, contractHash, submitted, log, caught, attempt, quote,
    fallbackResult, fillResult, result, built>>
clock == <<now>>
wallet == <<account, walletAddress, signer>>
chain == <<balance, usdcBalance, usdcAllowance, wethAllowance, routerAllowance>>
orderState == <<order, signed, signature, orderHash, contractHash, submitted>>
handler == <<caught, attempt, quote, fallbackResult, fillResult>>
vars ==
  <<session, clock, wallet, pending, swapCall, chain, pc, orderState, log,
    handler, result, built>>

Variants ==
  {"ManualLimitOrderDemo", "Fixed1inchDemo", "OfficialSDKDemo",
   "LimitOrderDemo", "WorkingLimitOrderDemo", "Working1inchLimitOrder",
   "RobustSwapDemo", "SimpleWorkingDemo", "WorkingUniswapDemo"}

\* a run starts a millisecond or a second after whatever came before it
Delays == {1, MsPerSecond}

\* floor(Math.random() * 1000), and the salts the SDK draws
RandomValues == {r \in 0..MaxRandom : r < RandomRange}

NowInit == 2 * MsPerSecond

NoMessage == [names |-> <<>>, values |-> <<>>]
NoSignature == [signer |-> "", domain |-> NoDomainSeparator, message |-> NoMessage]
\* Math.floor(Date.now() / 1000) + 1200
Deadline(t) == (t \div MsPerSecond) + DeadlineSeconds

\* the quote itself, no tolerance
quotedAmountOut(expectedOut) == expectedOut

\* expectedOut * BigInt(95) / BigInt(100): BigInt division truncates
minAmountOut(expectedOut) == (expectedOut * SlippageNumerator) \div SlippageDenominator

\* the arguments of swapExactTokensForTokens or swapExactETHForTokens, with
\* the quote they were computed from and the time of the call
NoSwapCall == [called |-> FALSE, expectedOut |-> 0, amountOutMin |-> 0, deadline |-> 0, at |-> 0]
SwapCall(expectedOut, deadline) ==
  [called |-> TRUE, expectedOut |-> expectedOut,
   amountOutMin |-> minAmountOut(expectedOut), deadline |-> deadline, at |-> now]

NoResult == [status |-> "none", method |-> "", errors |-> {}, txTo |-> ""]

Message(o, names) == [names |-> names, values |-> FieldValues(o, names)]

\* the wallet signs the message under the domain with the connected account
signTypedData(domain, types, o) ==
  [signer |-> Wallet, domain |-> DomainSeparator(domain),
   message |-> Message(o, types)]

Has(e) == \E i \in DOMAIN log : log[i] = e
Count(e) == Cardinality({i \in DOMAIN log : log[i] = e})
Before(e, f) == \A i, j \in DOMAIN log : (log[i] = e /\ log[j] = f) => i < j

Failure(e) == [status |-> "error", method |-> "", errors |-> {e}, txTo |-> ""]
Success(m, to) == [status |-> "success", method |-> m, errors |-> {}, txTo |-> to]

\* the settlement contract accepts a fill when the signature is the maker's
\* over the typed-data digest of the struct it is handed
SignatureValid(sig, struct) ==
  /\ struct.names = ORDER_TYPE
  /\ sig.signer = struct.values[2]
  /\ sig.message.names = ORDER_TYPE
  /\ sig.message.values = struct.values

\* what a submitted fill can do: the wallet rejects it, it reverts, or it is
\* confirmed. The wallet is maker and taker of its own order, so a confirmed
\* fill moves no balance and uses up both allowances.
FillOutcomes(sig, struct) ==
  {"rejected", "reverted"} \cup
  (IF SignatureValid(sig, struct) THEN {"confirmed"} ELSE {})

\* the typed-data domain LimitOrder.getTypedData(chainId) returns: the SDK
\* sets it, the caller passes the chain id only
SdkDomain ==
  [name |-> "(set by the SDK)", version |-> "(set by the SDK)", chainId |-> 1,
   verifyingContract |-> LIMIT_ORDER_PROTOCOL]

\* MakerTraits.default().withExpiration(e).allowPartialFills()
\* .allowMultipleFills() of the SDK; e = 0 when no expiration is set
SdkMakerTraits(expiration) == {254} \cup ShiftLeft(expiration, 80)

\* router.getAmountsOut(amountIn, path): the call answers (TRUE) or throws
\* (FALSE); the router's library requires amountIn > 0, so a quote for
\* nothing always throws
getAmountsOut == IF amount > 0 THEN BOOLEAN ELSE {FALSE}

\* what a submitted router swap can do; the router pulls amountIn from the
\* wallet, so it is confirmed only when balance and allowance cover it
SwapOutcomes(amountIn, allowance) ==
  {"rejected", "reverted"} \cup
  (IF balance >= amountIn /\ allowance >= amountIn THEN {"confirmed"} ELSE {})

TypeOK ==
  /\ variant \in Variants
  /\ amount \in 0..MaxAmount
  /\ runs \in 0..MaxRuns
  /\ result.status \in {"none", "success", "error"}

\* the page as loaded for one of the helpers V, on a chain whose router
\* quotes one of Q
Loaded(V, Q) ==
  /\ variant \in V
  /\ amount \in 0..MaxAmount
  /\ runs = 0
  /\ now = NowInit
  /\ balance \in 0..MaxAmount
  /\ usdcBalance \in {0, MaxAmount * UsdcPerEth}
  /\ usdcAllowance = 0
  /\ wethAllowance = 0
  /\ routerAllowance = 0
  /\ pc = "idle"
  /\ order = NoOrder
  /\ signed = NoMessage
  /\ signature = NoSignature
  /\ orderHash = NoHash
  /\ contractHash = NoHash
  /\ submitted = NoMessage
  /\ log = <<>>
  /\ caught = ""
  /\ attempt = "try"
  /\ quote = 0
  /\ fallbackResult = NoResult
  /\ fillResult = NoResult
  /\ startBalance = 0
  /\ result = NoResult
  /\ built = <<>>
  /\ amountsOut \in Q
  /\ account = Wallet
  /\ walletAddress = ""
  /\ signer = ""
  /\ pending = {}
  /\ swapCall = NoSwapCall
  /\ startChain = chain

\* no traits builder has been called on its own
NoTraitsCall ==
  /\ expiry = {}
  /\ traits = {}
  /\ builder = ""

\* Working1inchDemo after mount (useState initial values)
Mounted ==
  /\ isLoading = FALSE
  /\ isFillingOrder = FALSE
  /\ pageResult = 0
  /\ pageFillResult = 0
  /\ creating = FALSE
  /\ filling = 0
  /\ orders = 0

\* convertEthToWeth has not been called, for an amount and balances
NotConverted(amounts) ==
  /\ ethBalance \in amounts
  /\ wethBalance \in amounts
  /\ requiredAmount \in amounts
  /\ currentBalance = 0
  /\ convertPc = "idle"
  /\ convertCalls = 0
  /\ firstSuccess = 0
  /\ deposits = <<>>

\* const [quote, setQuote] = useState(null)
NoPageQuote == [input |-> 0, output |-> "null"]

\* Working1inchRelayer after its constructor
Constructed ==
  /\ watching = FALSE
  /\ watchInterval = 0
  /\ timers = {}
  /\ timersCreated = 0
  /\ startCalls = 0
  /\ rounds = [r \in 1..MaxRounds |-> "none"]
  /\ fillCalls = {}
  /\ fills = <<>>

\* useState('0.001') and useState(null), before the first effect
QuoteUnset ==
  /\ ethAmount = 1
  /\ pageQuote = NoPageQuote
  /\ quoteRequests = {}
  /\ quotesSent = 0

\* nothing beside the helper has acted
Idle ==
  /\ NoTraitsCall
  /\ Mounted
  /\ NotConverted({0})
  /\ Constructed
  /\ QuoteUnset

Init == Loaded(Variants, 0..MaxQuote) /\ Idle

\* the entry point of each helper
Entry(v) ==
  CASE v = "ManualLimitOrderDemo" -> "manual_balanceOf"
    [] v = "Fixed1inchDemo" -> "fixed_balanceOf"
    [] v = "OfficialSDKDemo" -> "sdk_balanceOf"
    [] v = "LimitOrderDemo" -> "lo_getSigner"
    [] v = "WorkingLimitOrderDemo" -> "wlo_createOrder"
    [] v = "Working1inchLimitOrder" -> "w_try_getAmountsOut"
    [] v = "RobustSwapDemo" -> "robust_runDemo"
    [] v = "SimpleWorkingDemo" -> "swd_getQuote"
    [] v = "WorkingUniswapDemo" -> "wu_getQuote"

\* the user starts a run: a fresh promise, nothing carried over
StartRun ==
  /\ pc \in {"idle", "done"}
  /\ runs < MaxRuns
  /\ runs' = runs + 1
  /\ pc' = Entry(variant)
  /\ order' = NoOrder
  /\ signed' = NoMessage
  /\ signature' = NoSignature
  /\ orderHash' = NoHash
  /\ contractHash' = NoHash
  /\ submitted' = NoMessage
  /\ log' = <<>>
  /\ caught' = ""
  /\ attempt' = "try"
  /\ quote' = 0
  /\ fallbackResult' = NoResult
  /\ fillResult' = NoResult
  /\ startBalance' = balance
  /\ result' = NoResult
  /\ \E d \in Delays : now' = now + d
  /\ walletAddress' = ""
  /\ signer' = ""
  /\ swapCall' = NoSwapCall
  /\ startChain' = chain
  /\ UNCHANGED <<variant, amount, amountsOut, account, pending, chain, built,
                 components>>

\* the handler throws e out of its try/catch, which rethrows it
Throw(e) ==
  /\ pc' = "done"
  /\ result' = Failure(e)

(***************************************************************************)
(* ManualLimitOrderDemo.runDemo and fillOrder                              *)
(***************************************************************************)
Manual_BalanceOf ==
  /\ pc = "manual_balanceOf"
  /\ log' = Append(log, "balanceOf")
  /\ IF balance < amount
       THEN Throw("Insufficient WETH balance")
       ELSE pc' = "manual_build" /\ UNCHANGED result
  /\ UNCHANGED <<session, clock, wallet, pending, swapCall, chain, orderState, handler, built>>

Manual_Order ==
  [salt |-> now, maker |-> Wallet, receiver |-> Wallet,
   makerAsset |-> WETH_ADDRESS, takerAsset |-> USDC_ADDRESS,
   makingAmount |-> amount, takingAmount |-> amount * UsdcPerEth,
   makerTraits |-> {}]

Manual_Build ==
  /\ pc = "manual_build"
  /\ order' = Manual_Order
  /\ built' = Append(built, [run |-> runs, order |-> Manual_Order])
  /\ log' = Append(log, "build")
  /\ pc' = "manual_sign"
  /\ UNCHANGED <<session, clock, wallet, pending, swapCall, chain, signed, signature, orderHash,
                 contractHash, submitted, handler, result>>

Manual_Sign ==
  /\ pc = "manual_sign"
  /\ log' = Append(log, "signTypedData")
  /\ signed' = Message(order, ORDER_TYPE)
  /\ \E ok \in BOOLEAN :
       IF ok
         THEN /\ signature' = signTypedData(DOMAIN_Manual, ORDER_TYPE, order)
              /\ orderHash' = createOrderHash(order)
              /\ pc' = "manual_approveWeth"
              /\ UNCHANGED result
         ELSE /\ Throw("user rejected signing")
              /\ UNCHANGED <<signature, orderHash>>
  /\ UNCHANGED <<session, clock, wallet, pending, swapCall, chain, order, contractHash, submitted,
                 handler, built>>

Manual_ApproveWeth ==
  /\ pc = "manual_approveWeth"
  /\ log' = Append(log, "approve")
  /\ \E ok \in BOOLEAN :
       IF ok
         THEN /\ pending' = pending \cup {LIMIT_ORDER_PROTOCOL}
              /\ pc' = "manual_approveWeth_wait"
              /\ UNCHANGED result
         ELSE /\ Throw("approve rejected")
              /\ UNCHANGED pending
  /\ UNCHANGED <<session, clock, wallet, swapCall, chain, orderState, handler,
                 built>>

\* approveTx.wait()
Manual_ApproveWethWait ==
  /\ pc = "manual_approveWeth_wait"
  /\ log' = Append(log, "wait")
  /\ pending' = pending \ {LIMIT_ORDER_PROTOCOL}
  /\ \E ok \in BOOLEAN :
       IF ok
         THEN /\ wethAllowance' = amount
              /\ pc' = "manual_usdcBalanceOf"
              /\ UNCHANGED result
         ELSE /\ Throw("approve reverted")
              /\ UNCHANGED wethAllowance
  /\ UNCHANGED <<session, clock, wallet, swapCall, balance, usdcBalance, usdcAllowance,
                 routerAllowance, orderState, handler, built>>

Manual_UsdcBalanceOf ==
  /\ pc = "manual_usdcBalanceOf"
  /\ log' = Append(log, "balanceOf")
  /\ IF usdcBalance < order.takingAmount
       THEN Throw("Insufficient USDC")
       ELSE pc' = "manual_approveUsdc" /\ UNCHANGED result
  /\ UNCHANGED <<session, clock, wallet, pending, swapCall, chain, orderState, handler, built>>

Manual_ApproveUsdc ==
  /\ pc = "manual_approveUsdc"
  /\ log' = Append(log, "approve")
  /\ \E ok \in BOOLEAN :
       IF ok
         THEN /\ pending' = pending \cup {LIMIT_ORDER_PROTOCOL}
              /\ pc' = "manual_approveUsdc_wait"
              /\ UNCHANGED result
         ELSE /\ Throw("approve rejected")
              /\ UNCHANGED pending
  /\ UNCHANGED <<session, clock, wallet, swapCall, chain, orderState, handler,
                 built>>

\* approveTx.wait()
Manual_ApproveUsdcWait ==
  /\ pc = "manual_approveUsdc_wait"
  /\ log' = Append(log, "wait")
  /\ pending' = pending \ {LIMIT_ORDER_PROTOCOL}
  /\ \E ok \in BOOLEAN :
       IF ok
         THEN /\ usdcAllowance' = order.takingAmount
              /\ pc' = "manual_hashOrder"
              /\ UNCHANGED result
         ELSE /\ Throw("approve reverted")
              /\ UNCHANGED usdcAllowance
  /\ UNCHANGED <<session, clock, wallet, swapCall, balance, usdcBalance, wethAllowance,
                 routerAllowance, orderState, handler, built>>

\* fillOrder: the contract's hash is read and logged, and compared with nothing
Manual_HashOrder ==
  /\ pc = "manual_hashOrder"
  /\ log' = Append(log, "hashOrder")
  /\ \E ok \in BOOLEAN :
       IF ok
         THEN /\ contractHash' = hashOrder(order, DOMAIN_Manual)
              /\ pc' = "manual_fillOrder"
              /\ UNCHANGED result
         ELSE /\ Throw("hashOrder call failed")
              /\ UNCHANGED contractHash
  /\ UNCHANGED <<session, clock, wallet, pending, swapCall, chain, order, signed, signature, orderHash,
                 submitted, handler, built>>

Manual_FillOrder ==
  /\ pc = "manual_fillOrder"
  /\ submitted' = Message(order, ORDER_TYPE)
  /\ \E outcome \in FillOutcomes(signature, Message(order, ORDER_TYPE)) :
       CASE outcome = "rejected" ->
              /\ log' = Append(log, "fillOrder rejected")
              /\ Throw("transaction rejected")
              /\ UNCHANGED chain
         [] outcome = "reverted" ->
              /\ log' = log \o <<"fillOrder", "fillOrder reverted">>
              /\ Throw("execution reverted")
              /\ UNCHANGED chain
         [] outcome = "confirmed" ->
              /\ log' = log \o <<"fillOrder", "fillOrder confirmed">>
              /\ usdcAllowance' = usdcAllowance - order.takingAmount
              /\ wethAllowance' = wethAllowance - order.makingAmount
              /\ pc' = "done"
              /\ result' = Success("", LIMIT_ORDER_PROTOCOL)
              /\ UNCHANGED <<balance, usdcBalance, routerAllowance>>
  /\ UNCHANGED <<session, clock, wallet, pending, swapCall, order, signed, signature, orderHash,
                 contractHash, handler, built>>

Manual ==
  \/ Manual_BalanceOf \/ Manual_Build \/ Manual_Sign \/ Manual_ApproveWeth \/ Manual_ApproveWethWait
  \/ Manual_UsdcBalanceOf \/ Manual_ApproveUsdc \/ Manual_ApproveUsdcWait \/ Manual_HashOrder
  \/ Manual_FillOrder

(***************************************************************************)
(* Fixed1inchDemo.runDemo                                                  *)
(***************************************************************************)
Fixed_BalanceOf ==
  /\ pc = "fixed_balanceOf"
  /\ log' = Append(log, "balanceOf")
  /\ IF balance < amount
       THEN Throw("Insufficient WETH balance")
       ELSE pc' = "fixed_build" /\ UNCHANGED result
  /\ UNCHANGED <<session, clock, wallet, pending, swapCall, chain, orderState, handler, built>>

Fixed_Order ==
  [salt |-> now \div MsPerSecond, maker |-> Wallet, receiver |-> Wallet,
   makerAsset |-> WETH_ADDRESS, takerAsset |-> USDC_ADDRESS,
   makingAmount |-> amount, takingAmount |-> amount * UsdcPerEth,
   makerTraits |-> createMakerTraits]

Fixed_Build ==
  /\ pc = "fixed_build"
  /\ order' = Fixed_Order
  /\ built' = Append(built, [run |-> runs, order |-> Fixed_Order])
  /\ log' = Append(log, "build")
  /\ pc' = "fixed_sign"
  /\ UNCHANGED <<session, clock, wallet, pending, swapCall, chain, signed, signature, orderHash,
                 contractHash, submitted, handler, result>>

Fixed_Sign ==
  /\ pc = "fixed_sign"
  /\ log' = Append(log, "signTypedData")
  /\ signed' = Message(order, ORDER_TYPE)
  /\ \E ok \in BOOLEAN :
       IF ok
         THEN /\ signature' = signTypedData(DOMAIN_Fixed, ORDER_TYPE, order)
              /\ pc' = "fixed_hashOrder"
              /\ UNCHANGED result
         ELSE /\ Throw("user rejected signing")
              /\ UNCHANGED signature
  /\ UNCHANGED <<session, clock, wallet, pending, swapCall, chain, order, orderHash, contractHash,
                 submitted, handler, built>>

\* the reported order hash is the contract's own
Fixed_HashOrder ==
  /\ pc = "fixed_hashOrder"
  /\ log' = Append(log, "hashOrder")
  /\ \E ok \in BOOLEAN :
       IF ok
         THEN /\ contractHash' = hashOrder(order, DOMAIN_Fixed)
              /\ orderHash' = hashOrder(order, DOMAIN_Fixed)
              /\ pc' = "fixed_approveWeth"
              /\ UNCHANGED result
         ELSE /\ Throw("hashOrder call failed")
              /\ UNCHANGED <<contractHash, orderHash>>
  /\ UNCHANGED <<session, clock, wallet, pending, swapCall, chain, order, signed, signature, submitted,
                 handler, built>>

Fixed_ApproveWeth ==
  /\ pc = "fixed_approveWeth"
  /\ log' = Append(log, "approve")
  /\ \E ok \in BOOLEAN :
       IF ok
         THEN /\ pending' = pending \cup {LIMIT_ORDER_PROTOCOL}
              /\ pc' = "fixed_approveWeth_wait"
              /\ UNCHANGED result
         ELSE /\ Throw("approve rejected")
              /\ UNCHANGED pending
  /\ UNCHANGED <<session, clock, wallet, swapCall, chain, orderState, handler,
                 built>>

\* approveTx.wait()
Fixed_ApproveWethWait ==
  /\ pc = "fixed_approveWeth_wait"
  /\ log' = Append(log, "wait")
  /\ pending' = pending \ {LIMIT_ORDER_PROTOCOL}
  /\ \E ok \in BOOLEAN :
       IF ok
         THEN /\ wethAllowance' = amount
              /\ pc' = "fixed_usdcBalanceOf"
              /\ UNCHANGED result
         ELSE /\ Throw("approve reverted")
              /\ UNCHANGED wethAllowance
  /\ UNCHANGED <<session, clock, wallet, swapCall, balance, usdcBalance, usdcAllowance,
                 routerAllowance, orderState, handler, built>>

Fixed_UsdcBalanceOf ==
  /\ pc = "fixed_usdcBalanceOf"
  /\ log' = Append(log, "balanceOf")
  /\ IF usdcBalance < order.takingAmount
       THEN Throw("Insufficient USDC")
       ELSE pc' = "fixed_approveUsdc" /\ UNCHANGED result
  /\ UNCHANGED <<session, clock, wallet, pending, swapCall, chain, orderState, handler, built>>

Fixed_ApproveUsdc ==
  /\ pc = "fixed_approveUsdc"
  /\ log' = Append(log, "approve")
  /\ \E ok \in BOOLEAN :
       IF ok
         THEN /\ pending' = pending \cup {LIMIT_ORDER_PROTOCOL}
              /\ pc' = "fixed_approveUsdc_wait"
              /\ UNCHANGED result
         ELSE /\ Throw("approve rejected")
              /\ UNCHANGED pending
  /\ UNCHANGED <<session, clock, wallet, swapCall, chain, orderState, handler,
                 built>>

\* approveTx.wait()
Fixed_ApproveUsdcWait ==
  /\ pc = "fixed_approveUsdc_wait"
  /\ log' = Append(log, "wait")
  /\ pending' = pending \ {LIMIT_ORDER_PROTOCOL}
  /\ \E ok \in BOOLEAN :
       IF ok
         THEN /\ usdcAllowance' = order.takingAmount
              /\ pc' = "fixed_fillOrder"
              /\ UNCHANGED result
         ELSE /\ Throw("approve reverted")
              /\ UNCHANGED usdcAllowance
  /\ UNCHANGED <<session, clock, wallet, swapCall, balance, usdcBalance, wethAllowance,
                 routerAllowance, orderState, handler, built>>

Fixed_FillOrder ==
  /\ pc = "fixed_fillOrder"
  /\ submitted' = Message(order, ORDER_TYPE)
  /\ \E outcome \in FillOutcomes(signature, Message(order, ORDER_TYPE)) :
       CASE outcome = "rejected" ->
              /\ log' = Append(log, "fillOrder rejected")
              /\ Throw("transaction rejected")
              /\ UNCHANGED chain
         [] outcome = "reverted" ->
              /\ log' = log \o <<"fillOrder", "fillOrder reverted">>
              /\ Throw("execution reverted")
              /\ UNCHANGED chain
         [] outcome = "confirmed" ->
              /\ log' = log \o <<"fillOrder", "fillOrder confirmed">>
              /\ usdcAllowance' = usdcAllowance - order.takingAmount
              /\ wethAllowance' = wethAllowance - order.makingAmount
              /\ pc' = "done"
              /\ result' = Success("", LIMIT_ORDER_PROTOCOL)
              /\ UNCHANGED <<balance, usdcBalance, routerAllowance>>
  /\ UNCHANGED <<session, clock, wallet, pending, swapCall, order, signed, signature, orderHash,
                 contractHash, handler, built>>

Fixed ==
  \/ Fixed_BalanceOf \/ Fixed_Build \/ Fixed_Sign \/ Fixed_HashOrder
  \/ Fixed_ApproveWeth \/ Fixed_ApproveWethWait \/ Fixed_UsdcBalanceOf \/ Fixed_ApproveUsdc \/ Fixed_ApproveUsdcWait
  \/ Fixed_FillOrder

(***************************************************************************)
(* OfficialSDKDemo.runDemo, createOrder and fillOrderManually              *)
(***************************************************************************)
Sdk_BalanceOf ==
  /\ pc = "sdk_balanceOf"
  /\ log' = Append(log, "balanceOf")
  /\ IF balance < amount
       THEN Throw("Insufficient WETH balance")
       ELSE pc' = "sdk_createOrder" /\ UNCHANGED result
  /\ UNCHANGED <<session, clock, wallet, pending, swapCall, chain, orderState, handler, built>>

\* new LimitOrder({...}): the SDK draws the salt
Sdk_Order(salt) ==
  [salt |-> salt, maker |-> Wallet, receiver |-> Wallet,
   makerAsset |-> WETH_ADDRESS, takerAsset |-> USDC_ADDRESS,
   makingAmount |-> amount, takingAmount |-> amount * UsdcPerEth,
   makerTraits |-> SdkMakerTraits(0)]

Sdk_CreateOrder ==
  /\ pc = "sdk_createOrder"
  /\ \E salt \in RandomValues, ok \in BOOLEAN :
       IF ok
         THEN /\ order' = Sdk_Order(salt)
              /\ built' = Append(built, [run |-> runs, order |-> Sdk_Order(salt)])
              /\ log' = Append(log, "build")
              /\ pc' = "sdk_sign"
              /\ UNCHANGED result
         ELSE /\ Throw("LimitOrder constructor failed")
              /\ UNCHANGED <<order, built, log>>
  /\ UNCHANGED <<session, clock, wallet, pending, swapCall, chain, signed, signature, orderHash,
                 contractHash, submitted, handler>>

Sdk_Sign ==
  /\ pc = "sdk_sign"
  /\ log' = Append(log, "signTypedData")
  /\ signed' = Message(order, ORDER_TYPE)
  /\ \E ok \in BOOLEAN :
       IF ok
         THEN /\ signature' = signTypedData(SdkDomain, ORDER_TYPE, order)
              /\ orderHash' = hashOrder(order, SdkDomain)
              /\ pc' = "sdk_approve"
              /\ UNCHANGED result
         ELSE /\ Throw("user rejected signing")
              /\ UNCHANGED <<signature, orderHash>>
  /\ UNCHANGED <<session, clock, wallet, pending, swapCall, chain, order, contractHash, submitted,
                 handler, built>>

\* fillOrderManually: approve, quote, swap on the Uniswap router
Sdk_Approve ==
  /\ pc = "sdk_approve"
  /\ log' = Append(log, "approve")
  /\ \E ok \in BOOLEAN :
       IF ok
         THEN /\ pending' = pending \cup {UNISWAP_ROUTER}
              /\ pc' = "sdk_approve_wait"
              /\ UNCHANGED result
         ELSE /\ Throw("approve rejected")
              /\ UNCHANGED pending
  /\ UNCHANGED <<session, clock, wallet, swapCall, chain, orderState, handler,
                 built>>

\* approveTx.wait()
Sdk_ApproveWait ==
  /\ pc = "sdk_approve_wait"
  /\ log' = Append(log, "wait")
  /\ pending' = pending \ {UNISWAP_ROUTER}
  /\ \E d \in Delays : now' = now + d
  /\ \E ok \in BOOLEAN :
       IF ok
         THEN /\ routerAllowance' = amount
              /\ pc' = "sdk_getAmountsOut"
              /\ UNCHANGED result
         ELSE /\ Throw("approve reverted")
              /\ UNCHANGED routerAllowance
  /\ UNCHANGED <<session, wallet, swapCall, balance, usdcBalance, usdcAllowance,
                 wethAllowance, orderState, handler, built>>

Sdk_GetAmountsOut ==
  /\ pc = "sdk_getAmountsOut"
  /\ \E d \in Delays : now' = now + d
  /\ \E ok \in getAmountsOut :
       IF ok
         THEN quote' = amountsOut /\ pc' = "sdk_swap" /\ UNCHANGED result
         ELSE Throw("getAmountsOut failed") /\ UNCHANGED quote
  /\ UNCHANGED <<session, wallet, pending, swapCall, chain, orderState, log, caught, attempt,
                 fallbackResult, fillResult, built>>

Sdk_Swap ==
  /\ pc = "sdk_swap"
  /\ swapCall' = SwapCall(quote, Deadline(now))
  /\ \E outcome \in SwapOutcomes(amount, routerAllowance) :
       CASE outcome = "rejected" ->
              /\ log' = Append(log, "swap rejected")
              /\ Throw("transaction rejected")
              /\ UNCHANGED chain
         [] outcome = "reverted" ->
              /\ log' = log \o <<"swap", "swap reverted">>
              /\ Throw("execution reverted")
              /\ UNCHANGED chain
         [] outcome = "confirmed" ->
              /\ log' = log \o <<"swap", "swap confirmed">>
              /\ balance' = balance - amount
              /\ usdcBalance' = usdcBalance + quote
              /\ routerAllowance' = routerAllowance - amount
              /\ pc' = "done"
              /\ result' =
                   Success("Uniswap V2 (demonstrating the same trade as the 1inch order)",
                           UNISWAP_ROUTER)
              /\ UNCHANGED <<usdcAllowance, wethAllowance>>
  /\ UNCHANGED <<session, clock, wallet, pending, orderState, handler, built>>

OfficialSDK ==
  \/ Sdk_BalanceOf \/ Sdk_CreateOrder \/ Sdk_Sign \/ Sdk_Approve \/ Sdk_ApproveWait
  \/ Sdk_GetAmountsOut \/ Sdk_Swap

(***************************************************************************)
(* LimitOrderDemo.runCompleteDemo, createLimitOrder and executeLimitOrder  *)
(***************************************************************************)
\* sdk.createOrder(orderData, makerTraits): ETH is offered, the SDK draws the
\* salt
LimitOrder_Order(salt) ==
  [salt |-> salt, maker |-> walletAddress, receiver |-> walletAddress,
   makerAsset |-> ETH_ADDRESS, takerAsset |-> USDC_ADDRESS,
   makingAmount |-> amount, takingAmount |-> amount * UsdcPerEth,
   makerTraits |-> SdkMakerTraits((now \div MsPerSecond) + DaySeconds)]

\* runCompleteDemo: the signer of the account selected now, and its address
LimitOrder_GetSigner ==
  /\ pc = "lo_getSigner"
  /\ walletAddress' = account
  /\ pc' = "lo_createOrder"
  /\ UNCHANGED <<session, clock, account, signer, pending, swapCall, chain,
                 orderState, log, handler, result, built>>

\* the user selects another account in the wallet. Only createLimitOrder
\* reads the account a second time in one run; in the other helpers the maker
\* address and the signature come from one signer, and Wallet is its account.
accountsChanged ==
  /\ variant = "LimitOrderDemo"
  /\ pc \notin {"idle", "done"}
  /\ account' = IF account = Wallet THEN OtherAccount ELSE Wallet
  /\ UNCHANGED <<session, clock, walletAddress, signer, pending, swapCall,
                 chain, pc, orderState, log, handler, result, built>>

\* createLimitOrder: its own getSigner(), then sdk.createOrder
LimitOrder_CreateOrder ==
  /\ pc = "lo_createOrder"
  /\ signer' = account
  /\ \E salt \in RandomValues, ok \in BOOLEAN :
       IF ok
         THEN /\ order' = LimitOrder_Order(salt)
              /\ built' = Append(built, [run |-> runs, order |-> LimitOrder_Order(salt)])
              /\ log' = Append(log, "build")
              /\ pc' = "lo_sign"
              /\ UNCHANGED result
         ELSE /\ Throw("sdk.createOrder failed")
              /\ UNCHANGED <<order, built, log>>
  /\ UNCHANGED <<session, clock, account, walletAddress, pending, swapCall,
                 chain, signed, signature, orderHash, contractHash, submitted,
                 handler>>

LimitOrder_Sign ==
  /\ pc = "lo_sign"
  /\ log' = Append(log, "signTypedData")
  /\ signed' = Message(order, ORDER_TYPE)
  /\ \E ok \in BOOLEAN :
       IF ok
         THEN /\ signature' =
                   [signTypedData(SdkDomain, ORDER_TYPE, order)
                      EXCEPT !.signer = signer]
              /\ orderHash' = hashOrder(order, SdkDomain)
              /\ pc' = "lo_usdcBalanceOf"
              /\ UNCHANGED result
         ELSE /\ Throw("user rejected signing")
              /\ UNCHANGED <<signature, orderHash>>
  /\ UNCHANGED <<session, clock, wallet, pending, swapCall, chain, order, contractHash, submitted,
                 handler, built>>

\* executeLimitOrder: the resolver is the same wallet
LimitOrder_UsdcBalanceOf ==
  /\ pc = "lo_usdcBalanceOf"
  /\ log' = Append(log, "balanceOf")
  /\ IF usdcBalance < order.takingAmount
       THEN Throw("Insufficient USDC balance")
       ELSE pc' = "lo_allowance" /\ UNCHANGED result
  /\ UNCHANGED <<session, clock, wallet, pending, swapCall, chain, orderState, handler, built>>

LimitOrder_Allowance ==
  /\ pc = "lo_allowance"
  /\ log' = Append(log, "allowance")
  /\ pc' = IF usdcAllowance < order.takingAmount
             THEN "lo_approve" ELSE "lo_estimateGas"
  /\ UNCHANGED <<session, clock, wallet, pending, swapCall, chain, orderState, handler, result, built>>

LimitOrder_Approve ==
  /\ pc = "lo_approve"
  /\ log' = Append(log, "approve")
  /\ \E ok \in BOOLEAN :
       IF ok
         THEN /\ pending' = pending \cup {LIMIT_ORDER_PROTOCOL}
              /\ pc' = "lo_approve_wait"
              /\ UNCHANGED result
         ELSE /\ Throw("approve rejected")
              /\ UNCHANGED pending
  /\ UNCHANGED <<session, clock, wallet, swapCall, chain, orderState, handler,
                 built>>

\* approveTx.wait()
LimitOrder_ApproveWait ==
  /\ pc = "lo_approve_wait"
  /\ log' = Append(log, "wait")
  /\ pending' = pending \ {LIMIT_ORDER_PROTOCOL}
  /\ \E ok \in BOOLEAN :
       IF ok
         THEN /\ usdcAllowance' = MaxUint256
              /\ pc' = "lo_estimateGas"
              /\ UNCHANGED result
         ELSE /\ Throw("approve reverted")
              /\ UNCHANGED usdcAllowance
  /\ UNCHANGED <<session, clock, wallet, swapCall, balance, usdcBalance, wethAllowance,
                 routerAllowance, orderState, handler, built>>

\* fillOrder.estimateGas with the seven-field struct: the node answers or
\* throws
LimitOrder_EstimateGas ==
  /\ pc = "lo_estimateGas"
  /\ log' = Append(log, "estimateGas")
  /\ \E ok \in BOOLEAN :
       IF ok
         THEN pc' = "lo_fillOrder" /\ UNCHANGED result
         ELSE Throw("cannot estimate gas")
  /\ UNCHANGED <<session, clock, wallet, pending, swapCall, chain, orderState, handler, built>>

LimitOrder_FillOrder ==
  /\ pc = "lo_fillOrder"
  /\ submitted' = Message(order, LIMIT_ORDER_ABI_Order)
  /\ \E outcome \in FillOutcomes(signature, Message(order, LIMIT_ORDER_ABI_Order)) :
       CASE outcome = "rejected" ->
              /\ log' = Append(log, "fillOrder rejected")
              /\ Throw("transaction rejected")
              /\ UNCHANGED chain
         [] outcome = "reverted" ->
              /\ log' = log \o <<"fillOrder", "fillOrder reverted">>
              /\ Throw("execution reverted")
              /\ UNCHANGED chain
         [] outcome = "confirmed" ->
              /\ log' = log \o <<"fillOrder", "fillOrder confirmed">>
              /\ pc' = "done"
              /\ result' = Success("", LIMIT_ORDER_PROTOCOL)
              /\ UNCHANGED chain
  /\ UNCHANGED <<session, clock, wallet, pending, swapCall, order, signed, signature, orderHash,
                 contractHash, handler, built>>

LimitOrder ==
  \/ LimitOrder_GetSigner \/ accountsChanged
  \/ LimitOrder_CreateOrder \/ LimitOrder_Sign \/ LimitOrder_UsdcBalanceOf
  \/ LimitOrder_Allowance \/ LimitOrder_Approve \/ LimitOrder_ApproveWait \/ LimitOrder_EstimateGas
  \/ LimitOrder_FillOrder

(***************************************************************************)
(* WorkingLimitOrderDemo.runCompleteDemo, createLimitOrder and             *)
(* executeLimitOrder                                                       *)
(***************************************************************************)
\* new LimitOrder(orderData): WETH is offered, the SDK draws the salt
WorkingLimitOrder_Order(salt) ==
  [salt |-> salt, maker |-> Wallet, receiver |-> Wallet,
   makerAsset |-> WETH_ADDRESS, takerAsset |-> USDC_ADDRESS,
   makingAmount |-> amount, takingAmount |-> amount * UsdcPerEth,
   makerTraits |-> SdkMakerTraits((now \div MsPerSecond) + ExpirationSeconds)]

WorkingLimitOrder_CreateOrder ==
  /\ pc = "wlo_createOrder"
  /\ \E salt \in RandomValues, ok \in BOOLEAN :
       IF ok
         THEN /\ order' = WorkingLimitOrder_Order(salt)
              /\ built' = Append(built, [run |-> runs, order |-> WorkingLimitOrder_Order(salt)])
              /\ log' = Append(log, "build")
              /\ pc' = "wlo_sign"
              /\ UNCHANGED result
         ELSE /\ Throw("LimitOrder constructor failed")
              /\ UNCHANGED <<order, built, log>>
  /\ UNCHANGED <<session, clock, wallet, pending, swapCall, chain, signed, signature, orderHash,
                 contractHash, submitted, handler>>

WorkingLimitOrder_Sign ==
  /\ pc = "wlo_sign"
  /\ log' = Append(log, "signTypedData")
  /\ signed' = Message(order, ORDER_TYPE)
  /\ \E ok \in BOOLEAN :
       IF ok
         THEN /\ signature' = signTypedData(SdkDomain, ORDER_TYPE, order)
              /\ orderHash' = hashOrder(order, SdkDomain)
              /\ pc' = "wlo_usdcBalanceOf"
              /\ UNCHANGED result
         ELSE /\ Throw("user rejected signing")
              /\ UNCHANGED <<signature, orderHash>>
  /\ UNCHANGED <<session, clock, wallet, pending, swapCall, chain, order, contractHash, submitted,
                 handler, built>>

WorkingLimitOrder_UsdcBalanceOf ==
  /\ pc = "wlo_usdcBalanceOf"
  /\ log' = Append(log, "balanceOf")
  /\ IF usdcBalance < order.takingAmount
       THEN Throw("Insufficient USDC balance")
       ELSE pc' = "wlo_approve" /\ UNCHANGED result
  /\ UNCHANGED <<session, clock, wallet, pending, swapCall, chain, orderState, handler, built>>

WorkingLimitOrder_Approve ==
  /\ pc = "wlo_approve"
  /\ log' = Append(log, "approve")
  /\ \E ok \in BOOLEAN :
       IF ok
         THEN /\ pending' = pending \cup {LIMIT_ORDER_PROTOCOL}
              /\ pc' = "wlo_approve_wait"
              /\ UNCHANGED result
         ELSE /\ Throw("approve rejected")
              /\ UNCHANGED pending
  /\ UNCHANGED <<session, clock, wallet, swapCall, chain, orderState, handler,
                 built>>

\* approveTx.wait()
WorkingLimitOrder_ApproveWait ==
  /\ pc = "wlo_approve_wait"
  /\ log' = Append(log, "wait")
  /\ pending' = pending \ {LIMIT_ORDER_PROTOCOL}
  /\ \E ok \in BOOLEAN :
       IF ok
         THEN /\ usdcAllowance' = order.takingAmount
              /\ pc' = "wlo_fillOrder"
              /\ UNCHANGED result
         ELSE /\ Throw("approve reverted")
              /\ UNCHANGED usdcAllowance
  /\ UNCHANGED <<session, clock, wallet, swapCall, balance, usdcBalance, wethAllowance,
                 routerAllowance, orderState, handler, built>>

WorkingLimitOrder_FillOrder ==
  /\ pc = "wlo_fillOrder"
  /\ submitted' = Message(order, LIMIT_ORDER_ABI_Order)
  /\ \E outcome \in FillOutcomes(signature, Message(order, LIMIT_ORDER_ABI_Order)) :
       CASE outcome = "rejected" ->
              /\ log' = Append(log, "fillOrder rejected")
              /\ Throw("transaction rejected")
              /\ UNCHANGED chain
         [] outcome = "reverted" ->
              /\ log' = log \o <<"fillOrder", "fillOrder reverted">>
              /\ Throw("execution reverted")
              /\ UNCHANGED chain
         [] outcome = "confirmed" ->
              /\ log' = log \o <<"fillOrder", "fillOrder confirmed">>
              /\ pc' = "done"
              /\ result' = Success("", LIMIT_ORDER_PROTOCOL)
              /\ UNCHANGED chain
  /\ UNCHANGED <<session, clock, wallet, pending, swapCall, order, signed, signature, orderHash,
                 contractHash, handler, built>>

WorkingLimitOrder ==
  \/ WorkingLimitOrder_CreateOrder \/ WorkingLimitOrder_Sign
  \/ WorkingLimitOrder_UsdcBalanceOf \/ WorkingLimitOrder_Approve \/ WorkingLimitOrder_ApproveWait
  \/ WorkingLimitOrder_FillOrder

(***************************************************************************)
(* Working1inchLimitOrder.runCompleteDemo, runHackathonDemo and            *)
(* createManualOrderDemo                                                   *)
(***************************************************************************)
\* an error thrown inside createManualOrderDemo: runHackathonDemo's catch
\* block calls createManualOrderDemo again; thrown from there, it reaches the
\* caller of runCompleteDemo
Working1inch_Throw(e) ==
  IF attempt = "try"
    THEN /\ caught' = e
         /\ attempt' = "catch"
         /\ pc' = "w_getAmountsOut"
         /\ UNCHANGED result
    ELSE /\ Throw(e)
         /\ UNCHANGED <<caught, attempt>>

\* runHackathonDemo's own quote, inside its try block
Working1inch_TryGetAmountsOut ==
  /\ pc = "w_try_getAmountsOut"
  /\ log' = Append(log, "getAmountsOut")
  /\ \E ok \in getAmountsOut :
       IF ok
         THEN /\ quote' = amountsOut
              /\ UNCHANGED <<caught, attempt>>
         ELSE /\ caught' = "getAmountsOut failed"
              /\ attempt' = "catch"
              /\ UNCHANGED quote
  /\ pc' = "w_getAmountsOut"
  /\ UNCHANGED <<session, clock, wallet, pending, swapCall, chain, orderState, fallbackResult,
                 fillResult, result, built>>

Working1inch_GetAmountsOut ==
  /\ pc = "w_getAmountsOut"
  /\ log' = Append(log, "getAmountsOut")
  /\ \E ok \in getAmountsOut :
       IF ok
         THEN /\ quote' = amountsOut
              /\ pc' = "w_build"
              /\ UNCHANGED <<caught, attempt, result>>
         ELSE /\ Working1inch_Throw("getAmountsOut failed")
              /\ UNCHANGED quote
  /\ UNCHANGED <<session, clock, wallet, pending, swapCall, chain, orderState, fallbackResult,
                 fillResult, built>>

\* orderStructure = { salt, ...orderInfoData }
Working1inch_Order(rnd) ==
  [salt |-> now + rnd, maker |-> Wallet, receiver |-> Wallet,
   makerAsset |-> WETH_ADDRESS, takerAsset |-> USDC_ADDRESS,
   makingAmount |-> amount, takingAmount |-> quote,
   makerTraits |-> createProperMakerTraits(now)]

Working1inch_Build ==
  /\ pc = "w_build"
  /\ \E rnd \in RandomValues :
       /\ order' = Working1inch_Order(rnd)
       /\ built' = Append(built, [run |-> runs, order |-> Working1inch_Order(rnd)])
  /\ log' = Append(log, "build")
  /\ pc' = "w_sign"
  /\ UNCHANGED <<session, clock, wallet, pending, swapCall, chain, signed, signature, orderHash,
                 contractHash, submitted, handler, result>>

\* signTypedData, generateOrderHash, and the result runCompleteDemo wraps
Working1inch_Sign ==
  /\ pc = "w_sign"
  /\ log' = Append(log, "signTypedData")
  /\ signed' = Message(order, ORDER_TYPE)
  /\ \E ok \in BOOLEAN :
       IF ok
         THEN /\ signature' = signTypedData(DOMAIN_Fixed, ORDER_TYPE, order)
              /\ orderHash' = generateOrderHash(order, DOMAIN_Fixed)
              /\ pc' = "done"
              /\ result' =
                   Success("1inch Limit Order Protocol V4 - Manual Implementation", "")
              /\ UNCHANGED <<caught, attempt>>
         ELSE /\ Working1inch_Throw("user rejected signing")
              /\ UNCHANGED <<signature, orderHash>>
  /\ UNCHANGED <<session, clock, wallet, pending, swapCall, chain, order, contractHash, submitted,
                 quote, fallbackResult, fillResult, built>>

(***************************************************************************)
(* Working1inchLimitOrder.fillOrderAsTaker and executeFallbackDemo, started *)
(* by the page's fillExistingOrder on the order of the last run            *)
(***************************************************************************)
\* the handler throws e; fillExistingOrder shows it
FillOrderAsTaker_Throw(e) ==
  /\ pc' = "done"
  /\ fillResult' = Failure(e)

fillExistingOrder ==
  /\ variant = "Working1inchLimitOrder"
  /\ pc = "done"
  /\ result.status = "success"
  /\ fillResult = NoResult
  /\ log' = Append(log, "fillOrderAsTaker")
  /\ pc' = "f_balanceOf"
  /\ UNCHANGED <<session, clock, wallet, pending, swapCall, chain, orderState, handler, result, built>>

FillOrderAsTaker_BalanceOf ==
  /\ pc = "f_balanceOf"
  /\ log' = Append(log, "balanceOf")
  /\ IF usdcBalance < order.takingAmount
       THEN FillOrderAsTaker_Throw("Taker needs USDC")
       ELSE pc' = "f_allowance" /\ UNCHANGED fillResult
  /\ UNCHANGED <<session, clock, wallet, pending, swapCall, chain, orderState, caught, attempt, quote,
                 fallbackResult, result, built>>

FillOrderAsTaker_Allowance ==
  /\ pc = "f_allowance"
  /\ log' = Append(log, "allowance")
  /\ pc' = IF usdcAllowance < order.takingAmount
             THEN "f_approve" ELSE "f_validity"
  /\ UNCHANGED <<session, clock, wallet, pending, swapCall, chain, orderState, handler, result, built>>

\* approve twice the required amount, then read the allowance back
FillOrderAsTaker_Approve ==
  /\ pc = "f_approve"
  /\ log' = Append(log, "approve")
  /\ \E ok \in BOOLEAN :
       IF ok
         THEN /\ pending' = pending \cup {LIMIT_ORDER_PROTOCOL}
              /\ pc' = "f_approve_wait"
              /\ UNCHANGED fillResult
         ELSE /\ FillOrderAsTaker_Throw("approve rejected")
              /\ UNCHANGED pending
  /\ UNCHANGED <<session, clock, wallet, swapCall, chain, orderState, caught,
                 attempt, quote, fallbackResult, result, built>>

\* approveTx.wait()
FillOrderAsTaker_ApproveWait ==
  /\ pc = "f_approve_wait"
  /\ log' = Append(log, "wait")
  /\ pending' = pending \ {LIMIT_ORDER_PROTOCOL}
  /\ \E ok \in BOOLEAN :
       IF ok
         THEN /\ usdcAllowance' = order.takingAmount * 2
              /\ IF order.takingAmount * 2 < order.takingAmount
                   THEN FillOrderAsTaker_Throw("Approval failed")
                   ELSE pc' = "f_validity" /\ UNCHANGED fillResult
         ELSE /\ FillOrderAsTaker_Throw("approve reverted")
              /\ UNCHANGED usdcAllowance
  /\ UNCHANGED <<session, clock, wallet, swapCall, balance, usdcBalance, wethAllowance,
                 routerAllowance, orderState, caught, attempt, quote,
                 fallbackResult, result, built>>

\* remainingInvalidatorForOrder, simulate and fillOrder.estimateGas: each in
\* its own try/catch, whose catch block only logs
FillOrderAsTaker_Validity ==
  /\ pc = "f_validity"
  /\ log' = Append(log, "remainingInvalidatorForOrder")
  /\ pc' = "f_simulate"
  /\ UNCHANGED <<session, clock, wallet, pending, swapCall, chain, orderState, handler, result, built>>

FillOrderAsTaker_Simulate ==
  /\ pc = "f_simulate"
  /\ log' = Append(log, "simulate")
  /\ pc' = "f_estimateGas"
  /\ UNCHANGED <<session, clock, wallet, pending, swapCall, chain, orderState, handler, result, built>>

FillOrderAsTaker_EstimateGas ==
  /\ pc = "f_estimateGas"
  /\ log' = Append(log, "estimateGas")
  /\ pc' = "e_allowance"
  /\ UNCHANGED <<session, clock, wallet, pending, swapCall, chain, orderState, handler, result, built>>

\* executeFallbackDemo(makingAmount)
ExecuteFallbackDemo_Allowance ==
  /\ pc = "e_allowance"
  /\ log' = Append(log, "allowance")
  /\ pc' = IF routerAllowance < order.makingAmount
             THEN "e_approve" ELSE "e_getAmountsOut"
  /\ UNCHANGED <<session, clock, wallet, pending, swapCall, chain, orderState, handler, result, built>>

ExecuteFallbackDemo_Approve ==
  /\ pc = "e_approve"
  /\ log' = Append(log, "approve")
  /\ \E ok \in BOOLEAN :
       IF ok
         THEN /\ pending' = pending \cup {UNISWAP_ROUTER}
              /\ pc' = "e_approve_wait"
              /\ UNCHANGED fillResult
         ELSE /\ FillOrderAsTaker_Throw("approve rejected")
              /\ UNCHANGED pending
  /\ UNCHANGED <<session, clock, wallet, swapCall, chain, orderState, caught,
                 attempt, quote, fallbackResult, result, built>>

\* approveTx.wait()
ExecuteFallbackDemo_ApproveWait ==
  /\ pc = "e_approve_wait"
  /\ log' = Append(log, "wait")
  /\ pending' = pending \ {UNISWAP_ROUTER}
  /\ \E ok \in BOOLEAN :
       IF ok
         THEN /\ routerAllowance' = order.makingAmount
              /\ pc' = "e_getAmountsOut"
              /\ UNCHANGED fillResult
         ELSE /\ FillOrderAsTaker_Throw("approve reverted")
              /\ UNCHANGED routerAllowance
  /\ UNCHANGED <<session, clock, wallet, swapCall, balance, usdcBalance, usdcAllowance,
                 wethAllowance, orderState, caught, attempt, quote,
                 fallbackResult, result, built>>

ExecuteFallbackDemo_GetAmountsOut ==
  /\ pc = "e_getAmountsOut"
  /\ log' = Append(log, "getAmountsOut")
  /\ \E ok \in getAmountsOut :
       IF ok
         THEN quote' = amountsOut /\ pc' = "e_swap" /\ UNCHANGED fillResult
         ELSE FillOrderAsTaker_Throw("getAmountsOut failed") /\ UNCHANGED quote
  /\ UNCHANGED <<session, clock, wallet, pending, swapCall, chain, orderState, caught, attempt,
                 fallbackResult, result, built>>

ExecuteFallbackDemo_Swap ==
  /\ pc = "e_swap"
  /\ swapCall' = SwapCall(quote, Deadline(now))
  /\ \E outcome \in SwapOutcomes(order.makingAmount, routerAllowance) :
       CASE outcome = "rejected" ->
              /\ log' = Append(log, "swap rejected")
              /\ FillOrderAsTaker_Throw("transaction rejected")
              /\ UNCHANGED <<chain, fallbackResult>>
         [] outcome = "reverted" ->
              /\ log' = log \o <<"swap", "swap reverted">>
              /\ FillOrderAsTaker_Throw("execution reverted")
              /\ UNCHANGED <<chain, fallbackResult>>
         [] outcome = "confirmed" ->
              /\ log' = log \o <<"swap", "swap confirmed">>
              /\ balance' = balance - order.makingAmount
              /\ usdcBalance' = usdcBalance + quote
              /\ routerAllowance' = routerAllowance - order.makingAmount
              /\ fallbackResult' =
                   Success("Fallback Demo (Uniswap V2) - 1inch execution attempted first",
                           UNISWAP_ROUTER)
              /\ pc' = "f_return"
              /\ UNCHANGED <<usdcAllowance, wethAllowance, fillResult>>
  /\ UNCHANGED <<session, clock, wallet, pending, orderState, caught, attempt, quote, result,
                 built>>

\* return { ...fallbackResult, method: ..., note: ... }
FillOrderAsTaker_Return ==
  /\ pc = "f_return"
  /\ fillResult' =
       [fallbackResult EXCEPT
          !.method = "1inch Order Created + Uniswap Execution (Demo)"]
  /\ pc' = "done"
  /\ UNCHANGED <<session, clock, wallet, pending, swapCall, chain, orderState, log, caught, attempt,
                 quote, fallbackResult, result, built>>

Working1inch ==
  \/ Working1inch_TryGetAmountsOut \/ Working1inch_GetAmountsOut
  \/ Working1inch_Build \/ Working1inch_Sign
  \/ fillExistingOrder \/ FillOrderAsTaker_BalanceOf
  \/ FillOrderAsTaker_Allowance \/ FillOrderAsTaker_Approve \/ FillOrderAsTaker_ApproveWait
  \/ FillOrderAsTaker_Validity \/ FillOrderAsTaker_Simulate
  \/ FillOrderAsTaker_EstimateGas \/ ExecuteFallbackDemo_Allowance
  \/ ExecuteFallbackDemo_Approve \/ ExecuteFallbackDemo_ApproveWait \/ ExecuteFallbackDemo_GetAmountsOut
  \/ ExecuteFallbackDemo_Swap \/ FillOrderAsTaker_Return

(***************************************************************************)
(* RobustSwapDemo.runDemo with UniswapDemo.runDemo and                     *)
(* DirectSwapDemo.runDirectDemo. balance is the wallet's ETH.              *)
(***************************************************************************)
\* the guard on the page: the amount plus 0.001 ETH for gas must be covered
RobustSwapDemo_RunDemo ==
  /\ pc = "robust_runDemo"
  /\ IF balance < amount + 1
       THEN Throw("Insufficient ETH balance")
       ELSE pc' = "robust_getQuote" /\ UNCHANGED result
  /\ UNCHANGED <<session, clock, wallet, pending, swapCall, chain, orderState, log, handler, built>>

\* UniswapDemo.getQuote: returns '0' when the call fails
UniswapDemo_GetQuote ==
  /\ pc = "robust_getQuote"
  /\ log' = Append(log, "getAmountsOut")
  /\ \E ok \in getAmountsOut : quote' = IF ok THEN amountsOut ELSE 0
  /\ pc' = "robust_getAmountsOut"
  /\ UNCHANGED <<session, clock, wallet, pending, swapCall, chain, orderState, caught, attempt,
                 fallbackResult, fillResult, result, built>>

\* UniswapDemo.executeSwap: the deadline, the quote, then swapExactETHForTokens
UniswapDemo_GetAmountsOut ==
  /\ pc = "robust_getAmountsOut"
  /\ log' = Append(log, "getAmountsOut")
  /\ swapCall' = [swapCall EXCEPT !.deadline = Deadline(now)]
  /\ \E d \in Delays : now' = now + d
  /\ \E ok \in getAmountsOut :
       IF ok
         THEN /\ quote' = amountsOut
              /\ pc' = "robust_swapExactETHForTokens"
              /\ UNCHANGED caught
         ELSE /\ caught' = "getAmountsOut failed"
              /\ pc' = "robust_estimateGas"
              /\ UNCHANGED quote
  /\ UNCHANGED <<session, wallet, pending, chain, orderState, attempt, fallbackResult,
                 fillResult, result, built>>

\* what a swap paid in ETH can do: it is confirmed only when the balance
\* covers the value sent
EthSwapOutcomes(value) ==
  {"rejected", "reverted"} \cup (IF balance >= value THEN {"confirmed"} ELSE {})

\* tx.wait() can also throw for a transaction that was broadcast and is
\* mined all the same: the connection fails while polling, or the wallet
\* replaces the transaction with a repriced one
BroadcastOutcomes(value) ==
  EthSwapOutcomes(value) \cup (IF balance >= value THEN {"unseen"} ELSE {})

UniswapDemo_SwapExactETHForTokens ==
  /\ pc = "robust_swapExactETHForTokens"
  /\ swapCall' = SwapCall(quote, swapCall.deadline)
  /\ \E outcome \in BroadcastOutcomes(amount) :
       CASE outcome = "rejected" ->
              /\ log' = Append(log, "swap rejected")
              /\ caught' = "transaction rejected"
              /\ pc' = "robust_estimateGas"
              /\ UNCHANGED <<chain, result>>
         [] outcome = "reverted" ->
              /\ log' = log \o <<"swap", "swap reverted">>
              /\ caught' = "execution reverted"
              /\ pc' = "robust_estimateGas"
              /\ UNCHANGED <<chain, result>>
         [] outcome = "confirmed" ->
              /\ log' = log \o <<"swap", "swap confirmed">>
              /\ balance' = balance - amount
              /\ usdcBalance' = usdcBalance + quote
              /\ pc' = "done"
              /\ result' = Success("Uniswap V2", UNISWAP_ROUTER)
              /\ UNCHANGED <<usdcAllowance, wethAllowance, routerAllowance,
                             caught>>
         [] outcome = "unseen" ->
              /\ log' = log \o <<"swap", "swap mined, wait failed">>
              /\ balance' = balance - amount
              /\ usdcBalance' = usdcBalance + quote
              /\ caught' = "transaction was replaced"
              /\ pc' = "robust_estimateGas"
              /\ UNCHANGED <<usdcAllowance, wethAllowance, routerAllowance,
                             result>>
  /\ UNCHANGED <<session, clock, wallet, pending, orderState, attempt, quote, fallbackResult,
                 fillResult, built>>

\* only the last failure is shown
LastFailed(uniswapError, directError) ==
  [status |-> "error", method |-> "", errors |-> {directError}, txTo |-> ""]

\* both paths failed: the page shows both messages
BothFailed(uniswapError, directError) ==
  [status |-> "error", method |-> "", errors |-> {uniswapError, directError},
   txTo |-> ""]

\* DirectSwapDemo.executeDirectSwap, from the catch block of runDemo
DirectSwapDemo_EstimateGas ==
  /\ pc = "robust_estimateGas"
  /\ log' = Append(log, "estimateGas")
  /\ \E ok \in BOOLEAN :
       IF ok
         THEN pc' = "robust_swap" /\ UNCHANGED result
         ELSE pc' = "done" /\ result' = BothFailed(caught, "cannot estimate gas")
  /\ UNCHANGED <<session, clock, wallet, pending, swapCall, chain, orderState, handler, built>>

DirectSwapDemo_Swap ==
  /\ pc = "robust_swap"
  /\ \E outcome \in EthSwapOutcomes(amount) :
       CASE outcome = "rejected" ->
              /\ log' = Append(log, "router swap rejected")
              /\ result' = BothFailed(caught, "transaction rejected")
              /\ UNCHANGED chain
         [] outcome = "reverted" ->
              /\ log' = log \o <<"router swap", "router swap reverted">>
              /\ result' = BothFailed(caught, "execution reverted")
              /\ UNCHANGED chain
         [] outcome = "confirmed" ->
              /\ log' = log \o <<"router swap", "router swap confirmed">>
              /\ balance' = balance - amount
              /\ usdcBalance' = usdcBalance + 1
              /\ result' = Success("1inch Direct", AGGREGATION_ROUTER_V5)
              /\ UNCHANGED <<usdcAllowance, wethAllowance, routerAllowance>>
  /\ pc' = "done"
  /\ UNCHANGED <<session, clock, wallet, pending, swapCall, orderState, handler, built>>

RobustSwapDemo ==
  \/ RobustSwapDemo_RunDemo \/ UniswapDemo_GetQuote
  \/ UniswapDemo_GetAmountsOut \/ UniswapDemo_SwapExactETHForTokens
  \/ DirectSwapDemo_EstimateGas \/ DirectSwapDemo_Swap

(***************************************************************************)
(* SimpleWorkingDemo.runDemo, getQuote and executeSwap. balance is the     *)
(* wallet's WETH.                                                          *)
(***************************************************************************)
\* getQuote: output '0' when the call fails
SimpleWorking_GetQuote ==
  /\ pc = "swd_getQuote"
  /\ log' = Append(log, "getAmountsOut")
  /\ \E ok \in getAmountsOut : quote' = IF ok THEN amountsOut ELSE 0
  /\ pc' = "swd_balanceOf"
  /\ UNCHANGED <<session, clock, wallet, pending, swapCall, chain, orderState,
                 caught, attempt, fallbackResult, fillResult, result, built>>

SimpleWorking_BalanceOf ==
  /\ pc = "swd_balanceOf"
  /\ log' = Append(log, "balanceOf")
  /\ IF balance < amount
       THEN Throw("Insufficient WETH balance")
       ELSE pc' = "swd_allowance" /\ UNCHANGED result
  /\ UNCHANGED <<session, clock, wallet, pending, swapCall, chain, orderState,
                 handler, built>>

\* the step without the comparison: an approval whatever the allowance
SimpleWorking_AllowanceUnread ==
  /\ pc = "swd_allowance"
  /\ log' = Append(log, "allowance")
  /\ pc' = "swd_approve"
  /\ UNCHANGED <<session, clock, wallet, pending, swapCall, chain, orderState,
                 handler, result, built>>

SimpleWorking_Allowance ==
  /\ pc = "swd_allowance"
  /\ log' = Append(log, "allowance")
  /\ pc' = IF routerAllowance < amount THEN "swd_approve" ELSE "swd_getAmountsOut"
  /\ UNCHANGED <<session, clock, wallet, pending, swapCall, chain, orderState,
                 handler, result, built>>

SimpleWorking_Approve ==
  /\ pc = "swd_approve"
  /\ log' = Append(log, "approve")
  /\ \E ok \in BOOLEAN :
       IF ok
         THEN /\ pending' = pending \cup {UNISWAP_ROUTER}
              /\ pc' = "swd_approve_wait"
              /\ UNCHANGED result
         ELSE /\ Throw("approve rejected")
              /\ UNCHANGED pending
  /\ UNCHANGED <<session, clock, wallet, swapCall, chain, orderState, handler,
                 built>>

\* approveTx.wait()
SimpleWorking_ApproveWait ==
  /\ pc = "swd_approve_wait"
  /\ log' = Append(log, "wait")
  /\ pending' = pending \ {UNISWAP_ROUTER}
  /\ \E d \in Delays : now' = now + d
  /\ \E ok \in BOOLEAN :
       IF ok
         THEN /\ routerAllowance' = amount
              /\ pc' = "swd_getAmountsOut"
              /\ UNCHANGED result
         ELSE /\ Throw("approve reverted")
              /\ UNCHANGED routerAllowance
  /\ UNCHANGED <<session, wallet, swapCall, balance, usdcBalance,
                 usdcAllowance, wethAllowance, orderState, handler, built>>

SimpleWorking_GetAmountsOut ==
  /\ pc = "swd_getAmountsOut"
  /\ log' = Append(log, "getAmountsOut")
  /\ \E d \in Delays : now' = now + d
  /\ \E ok \in getAmountsOut :
       IF ok
         THEN quote' = amountsOut /\ pc' = "swd_swap" /\ UNCHANGED result
         ELSE Throw("getAmountsOut failed") /\ UNCHANGED quote
  /\ UNCHANGED <<session, wallet, pending, swapCall, chain, orderState, caught,
                 attempt, fallbackResult, fillResult, built>>

\* the result executeSwap builds once the swap is confirmed: approvalTx reads
\* approveTx, a const of the block of 'if (allowance < amountIn)', outside
\* that block. Where the allowance was enough the read is not evaluated; where
\* an approval was sent it is a ReferenceError, which the catch block rethrows.
SimpleWorking_Result(approved) ==
  IF approved
    THEN Failure("approveTx is not defined")
    ELSE Success("Uniswap V2 (Direct DEX interaction)", UNISWAP_ROUTER)

\* the deadline, swapExactTokensForTokens, swapTx.wait() and the result
SimpleWorking_Swap ==
  /\ pc = "swd_swap"
  /\ swapCall' = SwapCall(quote, Deadline(now))
  /\ \E outcome \in SwapOutcomes(amount, routerAllowance) :
       CASE outcome = "rejected" ->
              /\ log' = Append(log, "swap rejected")
              /\ Throw("transaction rejected")
              /\ UNCHANGED chain
         [] outcome = "reverted" ->
              /\ log' = log \o <<"swap", "swap reverted">>
              /\ Throw("execution reverted")
              /\ UNCHANGED chain
         [] outcome = "confirmed" ->
              /\ log' = log \o <<"swap", "swap confirmed">>
              /\ balance' = balance - amount
              /\ usdcBalance' = usdcBalance + quote
              /\ routerAllowance' = routerAllowance - amount
              /\ pc' = "done"
              /\ result' = SimpleWorking_Result(Has("approve"))
              /\ UNCHANGED <<usdcAllowance, wethAllowance>>
  /\ UNCHANGED <<session, clock, wallet, pending, orderState, handler, built>>

SimpleWorking ==
  \/ SimpleWorking_GetQuote \/ SimpleWorking_BalanceOf
  \/ SimpleWorking_Allowance \/ SimpleWorking_Approve
  \/ SimpleWorking_ApproveWait \/ SimpleWorking_GetAmountsOut
  \/ SimpleWorking_Swap

(***************************************************************************)
(* WorkingUniswapDemo.runDemo, getQuote, swapETHForUSDC and                *)
(* swapWETHForUSDC. balance is the wallet's ETH, or its WETH when useWETH. *)
(***************************************************************************)
\* getQuote returns '0' when the call fails; runDemo then takes the branch of
\* its useWETH argument
WorkingUniswap_GetQuote ==
  /\ pc = "wu_getQuote"
  /\ log' = Append(log, "getAmountsOut")
  /\ \E ok \in getAmountsOut : quote' = IF ok THEN amountsOut ELSE 0
  /\ \E useWETH \in BOOLEAN :
       pc' = IF useWETH THEN "wu_approve" ELSE "wu_eth_getAmountsOut"
  /\ UNCHANGED <<session, clock, wallet, pending, swapCall, chain, orderState,
                 caught, attempt, fallbackResult, fillResult, result, built>>

\* swapETHForUSDC: the deadline is taken, then the quote is awaited
WorkingUniswap_EthGetAmountsOut ==
  /\ pc = "wu_eth_getAmountsOut"
  /\ log' = Append(log, "getAmountsOut")
  /\ swapCall' = [swapCall EXCEPT !.deadline = Deadline(now)]
  /\ \E d \in Delays : now' = now + d
  /\ \E ok \in getAmountsOut :
       IF ok
         THEN quote' = amountsOut /\ pc' = "wu_eth_swap" /\ UNCHANGED result
         ELSE Throw("getAmountsOut failed") /\ UNCHANGED quote
  /\ UNCHANGED <<session, wallet, pending, chain, orderState, caught, attempt,
                 fallbackResult, fillResult, built>>

\* swapExactETHForTokens and swapTx.wait()
WorkingUniswap_SwapExactETHForTokens ==
  /\ pc = "wu_eth_swap"
  /\ swapCall' = SwapCall(quote, swapCall.deadline)
  /\ \E outcome \in EthSwapOutcomes(amount) :
       CASE outcome = "rejected" ->
              /\ log' = Append(log, "swap rejected")
              /\ Throw("transaction rejected")
              /\ UNCHANGED chain
         [] outcome = "reverted" ->
              /\ log' = log \o <<"swap", "swap reverted">>
              /\ Throw("execution reverted")
              /\ UNCHANGED chain
         [] outcome = "confirmed" ->
              /\ log' = log \o <<"swap", "swap confirmed">>
              /\ balance' = balance - amount
              /\ usdcBalance' = usdcBalance + quote
              /\ pc' = "done"
              /\ result' = Success("Uniswap V2", UNISWAP_ROUTER)
              /\ UNCHANGED <<usdcAllowance, wethAllowance, routerAllowance>>
  /\ UNCHANGED <<session, clock, wallet, pending, orderState, handler, built>>

\* swapWETHForUSDC: approve whatever the allowance is
WorkingUniswap_Approve ==
  /\ pc = "wu_approve"
  /\ log' = Append(log, "approve")
  /\ \E ok \in BOOLEAN :
       IF ok
         THEN /\ pending' = pending \cup {UNISWAP_ROUTER}
              /\ pc' = "wu_approve_wait"
              /\ UNCHANGED result
         ELSE /\ Throw("approve rejected")
              /\ UNCHANGED pending
  /\ UNCHANGED <<session, clock, wallet, swapCall, chain, orderState, handler,
                 built>>

\* the step without the wait: the run goes on while the approval is pending
WorkingUniswap_ApproveNotAwaited ==
  /\ pc = "wu_approve_wait"
  /\ pc' = "wu_weth_getAmountsOut"
  /\ UNCHANGED <<session, clock, wallet, pending, swapCall, chain, orderState,
                 log, handler, result, built>>

\* approveTx.wait()
WorkingUniswap_ApproveWait ==
  /\ pc = "wu_approve_wait"
  /\ log' = Append(log, "wait")
  /\ pending' = pending \ {UNISWAP_ROUTER}
  /\ \E d \in Delays : now' = now + d
  /\ \E ok \in BOOLEAN :
       IF ok
         THEN /\ routerAllowance' = amount
              /\ pc' = "wu_weth_getAmountsOut"
              /\ UNCHANGED result
         ELSE /\ Throw("approve reverted")
              /\ UNCHANGED routerAllowance
  /\ UNCHANGED <<session, wallet, swapCall, balance, usdcBalance,
                 usdcAllowance, wethAllowance, orderState, handler, built>>

\* the deadline is taken, then the quote is awaited
WorkingUniswap_WethGetAmountsOut ==
  /\ pc = "wu_weth_getAmountsOut"
  /\ log' = Append(log, "getAmountsOut")
  /\ swapCall' = [swapCall EXCEPT !.deadline = Deadline(now)]
  /\ \E d \in Delays : now' = now + d
  /\ \E ok \in getAmountsOut :
       IF ok
         THEN quote' = amountsOut /\ pc' = "wu_weth_swap" /\ UNCHANGED result
         ELSE Throw("getAmountsOut failed") /\ UNCHANGED quote
  /\ UNCHANGED <<session, wallet, pending, chain, orderState, caught, attempt,
                 fallbackResult, fillResult, built>>

\* swapExactTokensForTokens and swapTx.wait()
WorkingUniswap_SwapExactTokensForTokens ==
  /\ pc = "wu_weth_swap"
  /\ swapCall' = SwapCall(quote, swapCall.deadline)
  /\ \E outcome \in SwapOutcomes(amount, routerAllowance) :
       CASE outcome = "rejected" ->
              /\ log' = Append(log, "swap rejected")
              /\ Throw("transaction rejected")
              /\ UNCHANGED chain
         [] outcome = "reverted" ->
              /\ log' = log \o <<"swap", "swap reverted">>
              /\ Throw("execution reverted")
              /\ UNCHANGED chain
         [] outcome = "confirmed" ->
              /\ log' = log \o <<"swap", "swap confirmed">>
              /\ balance' = balance - amount
              /\ usdcBalance' = usdcBalance + quote
              /\ routerAllowance' = routerAllowance - amount
              /\ pc' = "done"
              /\ result' = Success("Uniswap V2", UNISWAP_ROUTER)
              /\ UNCHANGED <<usdcAllowance, wethAllowance>>
  /\ UNCHANGED <<session, clock, wallet, pending, orderState, handler, built>>

WorkingUniswap ==
  \/ WorkingUniswap_GetQuote \/ WorkingUniswap_EthGetAmountsOut
  \/ WorkingUniswap_SwapExactETHForTokens \/ WorkingUniswap_Approve
  \/ WorkingUniswap_ApproveWait \/ WorkingUniswap_WethGetAmountsOut
  \/ WorkingUniswap_SwapExactTokensForTokens

Next ==
  \/ StartRun
  \/ Manual
  \/ Fixed
  \/ OfficialSDK
  \/ LimitOrder
  \/ WorkingLimitOrder
  \/ Working1inch
  \/ RobustSwapDemo
  \/ SimpleWorking
  \/ WorkingUniswap

Spec == Init /\ [][Next]_vars

(***************************************************************************)
(* The two router-only helpers, over a wider range of quotes.              *)
(***************************************************************************)
RouterVariants == {"SimpleWorkingDemo", "WorkingUniswapDemo"}

RouterInit == Loaded(RouterVariants, 0..MaxExpectedOut) /\ Idle

RouterNext ==
  \/ StartRun
  \/ SimpleWorking
  \/ WorkingUniswap

RouterSpec == RouterInit /\ [][RouterNext]_vars

(***************************************************************************)
(* RobustSwapDemo alone.                                                   *)
(***************************************************************************)
RobustInit == Loaded({"RobustSwapDemo"}, 0..MaxQuote) /\ Idle

RobustNext ==
  \/ StartRun
  \/ RobustSwapDemo

RobustSpec == RobustInit /\ [][RobustNext]_vars

(***************************************************************************)
(* The traits builders, called on their own with every expiration of at    *)
(* most MaxSetBits one-bits below 2^40.                                    *)
(***************************************************************************)
RECURSIVE UpToSetBits(_)
UpToSetBits(k) ==
  IF k = 0
    THEN {{}}
    ELSE LET fewer == UpToSetBits(k - 1)
         IN fewer \cup {e \cup {b} : e \in fewer, b \in 0..(ExpirationWidth - 1)}

Expirations == UpToSetBits(MaxSetBits)

Builders ==
  {"createProperMakerTraits", "createAdvancedMakerTraits", "createMakerTraits"}

\* no helper runs and nothing else acts
Unloaded ==
  /\ Loaded({"Working1inchLimitOrder"}, {0})
  /\ amount = 0
  /\ balance = 0
  /\ usdcBalance = 0

TraitsInit ==
  /\ Unloaded
  /\ Mounted
  /\ NotConverted({0})
  /\ Constructed
  /\ QuoteUnset
  /\ expiry \in Expirations
  /\ traits = {}
  /\ builder = ""

CreateProperMakerTraits ==
  /\ builder = ""
  /\ traits' = ProperMakerTraits(expiry)
  /\ builder' = "createProperMakerTraits"
  /\ UNCHANGED <<helpers, expiry, page, convert, relayer, quotePage>>

CreateAdvancedMakerTraits ==
  /\ builder = ""
  /\ traits' = AdvancedMakerTraits(expiry)
  /\ builder' = "createAdvancedMakerTraits"
  /\ UNCHANGED <<helpers, expiry, page, convert, relayer, quotePage>>

\* Fixed1inchDemo.createMakerTraits sets no expiration
CreateMakerTraits ==
  /\ builder = ""
  /\ traits' = createMakerTraits
  /\ builder' = "createMakerTraits"
  /\ UNCHANGED <<helpers, expiry, page, convert, relayer, quotePage>>

TraitsNext ==
  \/ CreateProperMakerTraits
  \/ CreateAdvancedMakerTraits
  \/ CreateMakerTraits

TraitsSpec == TraitsInit /\ [][TraitsNext]_vars

(***************************************************************************)
(* The Working1inchDemo component: its two buttons and the two handlers.   *)
(* An order is known by its number; 0 stands for null.                     *)
(***************************************************************************)
PageInit ==
  /\ Unloaded
  /\ NoTraitsCall
  /\ Mounted
  /\ NotConverted({0})
  /\ Constructed
  /\ QuoteUnset

\* the create button is enabled and clicked: createAndExecuteOrder up to its
\* await
Page_CreateAndExecuteOrder ==
  /\ ~isLoading
  /\ orders < MaxOrders
  /\ isLoading' = TRUE
  /\ pageResult' = 0
  /\ creating' = TRUE
  /\ orders' = orders + 1
  /\ UNCHANGED <<helpers, traitsCall, convert, relayer, quotePage,
                 isFillingOrder, pageFillResult, filling>>

\* runCompleteDemo settles: setResult on success, setError otherwise, and
\* the finally block
Page_RunCompleteDemoSettles ==
  /\ creating
  /\ \E ok \in BOOLEAN : pageResult' = IF ok THEN orders ELSE pageResult
  /\ isLoading' = FALSE
  /\ creating' = FALSE
  /\ UNCHANGED <<helpers, traitsCall, convert, relayer, quotePage,
                 isFillingOrder, pageFillResult, filling,
                 orders>>

\* the fill button is enabled and clicked: fillExistingOrder up to its await
Page_FillExistingOrder ==
  /\ ~isFillingOrder
  /\ pageResult # 0
  /\ isFillingOrder' = TRUE
  /\ pageFillResult' = 0
  /\ filling' = pageResult
  /\ UNCHANGED <<helpers, traitsCall, convert, relayer, quotePage,
                 isLoading, pageResult, creating, orders>>

\* fillOrderAsTaker settles: setFillResult on success, setError otherwise,
\* and the finally block
Page_FillOrderAsTakerSettles ==
  /\ filling # 0
  /\ \E ok \in BOOLEAN :
       pageFillResult' = IF ok THEN filling ELSE pageFillResult
  /\ isFillingOrder' = FALSE
  /\ filling' = 0
  /\ UNCHANGED <<helpers, traitsCall, convert, relayer, quotePage,
                 isLoading, pageResult, creating, orders>>

PageNext ==
  \/ Page_CreateAndExecuteOrder
  \/ Page_RunCompleteDemoSettles
  \/ Page_FillExistingOrder
  \/ Page_FillOrderAsTakerSettles

PageSpec == PageInit /\ [][PageNext]_vars

(***************************************************************************)
(* convertEthToWeth, called up to MaxCalls times for the same amount.      *)
(***************************************************************************)
ConvertInit ==
  /\ Unloaded
  /\ NoTraitsCall
  /\ Mounted
  /\ NotConverted(0..MaxAmount)
  /\ Constructed
  /\ QuoteUnset

\* the whole amount, whatever the balance is
wholeAmount(required, current) == required

\* const neededAmount = requiredAmount - currentBalance
neededAmount(required, current) == required - current

\* convertEthToWeth is called
Convert_Call ==
  /\ convertPc \in {"idle", "returned", "thrown"}
  /\ convertCalls < MaxCalls
  /\ convertCalls' = convertCalls + 1
  /\ convertPc' = "cw_balanceOf"
  /\ UNCHANGED <<helpers, traitsCall, page, relayer, quotePage,
                 ethBalance, wethBalance,
                 requiredAmount, currentBalance, firstSuccess, deposits>>

\* the balance is read; with sufficient WETH the call returns success
Convert_BalanceOf ==
  /\ convertPc = "cw_balanceOf"
  /\ \E ok \in BOOLEAN :
       IF ~ok
         THEN /\ convertPc' = "thrown"
              /\ UNCHANGED <<currentBalance, firstSuccess>>
         ELSE /\ currentBalance' = wethBalance
              /\ IF wethBalance < requiredAmount
                   THEN convertPc' = "cw_deposit" /\ UNCHANGED firstSuccess
                   ELSE /\ convertPc' = "returned"
                        /\ firstSuccess' =
                             IF firstSuccess = 0 THEN convertCalls
                                                 ELSE firstSuccess
  /\ UNCHANGED <<helpers, traitsCall, page, relayer, quotePage,
                 ethBalance, wethBalance,
                 requiredAmount, convertCalls, deposits>>

\* wethContract.deposit({ value: neededAmount }); the wallet refuses a
\* value above the ETH balance
Convert_Deposit ==
  /\ convertPc = "cw_deposit"
  /\ \E ok \in (IF ethBalance >= neededAmount(requiredAmount, currentBalance)
                   THEN BOOLEAN ELSE {FALSE}) :
       IF ok
         THEN /\ deposits' =
                   Append(deposits,
                          [call |-> convertCalls,
                           value |-> neededAmount(requiredAmount, currentBalance),
                           held |-> currentBalance])
              /\ convertPc' = "cw_wait"
         ELSE /\ convertPc' = "thrown"
              /\ UNCHANGED deposits
  /\ UNCHANGED <<helpers, traitsCall, page, relayer, quotePage,
                 ethBalance, wethBalance,
                 requiredAmount, currentBalance, convertCalls, firstSuccess>>

\* wrapTx.wait(): the deposit is mined, or it reverts
Convert_Wait ==
  /\ convertPc = "cw_wait"
  /\ \E ok \in BOOLEAN :
       IF ok
         THEN /\ ethBalance' = ethBalance - deposits[Len(deposits)].value
              /\ wethBalance' = wethBalance + deposits[Len(deposits)].value
              /\ convertPc' = "returned"
              /\ firstSuccess' =
                   IF firstSuccess = 0 THEN convertCalls ELSE firstSuccess
         ELSE /\ convertPc' = "thrown"
              /\ UNCHANGED <<ethBalance, wethBalance, firstSuccess>>
  /\ UNCHANGED <<helpers, traitsCall, page, relayer, quotePage,
                 requiredAmount, currentBalance,
                 convertCalls, deposits>>

ConvertNext ==
  \/ Convert_Call
  \/ Convert_BalanceOf
  \/ Convert_Deposit
  \/ Convert_Wait

ConvertSpec == ConvertInit /\ [][ConvertNext]_vars

(***************************************************************************)
(* Working1inchRelayer: startWatching, stopWatching, the interval timer    *)
(* and the polling rounds it starts. The network holds one order.          *)
(***************************************************************************)
RelayerInit ==
  /\ Unloaded
  /\ NoTraitsCall
  /\ Mounted
  /\ NotConverted({0})
  /\ Constructed
  /\ QuoteUnset

\* startWatching without its first line
Relayer_StartWatchingUnguarded ==
  /\ startCalls < MaxStarts
  /\ startCalls' = startCalls + 1
  /\ watching' = TRUE
  /\ timersCreated' = timersCreated + 1
  /\ watchInterval' = timersCreated + 1
  /\ timers' = timers \cup {timersCreated + 1}
  /\ UNCHANGED <<helpers, traitsCall, page, convert, quotePage,
                 rounds, fillCalls, fills>>

\* startWatching: nothing is awaited before setInterval
Relayer_StartWatching ==
  /\ startCalls < MaxStarts
  /\ startCalls' = startCalls + 1
  /\ IF watching
       THEN UNCHANGED <<watching, timersCreated, watchInterval, timers>>
       ELSE /\ watching' = TRUE
            /\ timersCreated' = timersCreated + 1
            /\ watchInterval' = timersCreated + 1
            /\ timers' = timers \cup {timersCreated + 1}
  /\ UNCHANGED <<helpers, traitsCall, page, convert, quotePage,
                 rounds, fillCalls, fills>>

\* stopWatching: clearInterval(this.watchInterval), this.watching = false
Relayer_StopWatching ==
  /\ timers' = timers \ {watchInterval}
  /\ watching' = FALSE
  /\ UNCHANGED <<helpers, traitsCall, page, convert, quotePage,
                 watchInterval,
                 timersCreated, startCalls, rounds, fillCalls, fills>>

\* rounds that have started and not finished
InFlight == {r \in 1..MaxRounds : rounds[r] \notin {"none", "done"}}

\* an active timer fires: its callback calls checkForProfitableOrders, which
\* runs up to its await of sdk.getOrders()
Relayer_Tick ==
  /\ timers # {}
  /\ \E r \in 1..MaxRounds :
       /\ rounds[r] = "none"
       /\ \A q \in 1..(r - 1) : rounds[q] # "none"
       /\ rounds' = [rounds EXCEPT ![r] = "getOrders"]
  /\ UNCHANGED <<helpers, traitsCall, page, convert, quotePage,
                 watching, watchInterval,
                 timers, timersCreated, startCalls, fillCalls, fills>>

\* sdk.getOrders() settles: it throws, returns no order, or returns the order
Relayer_GetOrders ==
  /\ \E r \in 1..MaxRounds :
       /\ rounds[r] = "getOrders"
       /\ \E found \in BOOLEAN :
            rounds' = [rounds EXCEPT ![r] = IF found THEN "evaluate" ELSE "done"]
  /\ UNCHANGED <<helpers, traitsCall, page, convert, quotePage,
                 watching, watchInterval,
                 timers, timersCreated, startCalls, fillCalls, fills>>

\* fillOrder with an ERC-20 interface that has allowance: the fill is
\* submitted
Relayer_FillOrderSubmitted(r) ==
  /\ fillCalls' = fillCalls \cup {[round |-> r, watching |-> watching]}
  /\ fills' = Append(fills, [round |-> r, watching |-> watching])

\* fillOrder(order): the contract object is built from an interface with
\* approve only, so erc20.allowance is undefined and calling it throws before
\* any transaction; the loop's catch logs the error
Relayer_FillOrder(r) ==
  /\ fillCalls' = fillCalls \cup {[round |-> r, watching |-> watching]}
  /\ UNCHANGED fills

\* evaluateOrderProfitability settles; fillOrder is called for a profitable
\* order without another await in between
Relayer_Evaluate ==
  /\ \E r \in 1..MaxRounds :
       /\ rounds[r] = "evaluate"
       /\ rounds' = [rounds EXCEPT ![r] = "done"]
       /\ \E isProfitable \in BOOLEAN :
            IF isProfitable
              THEN Relayer_FillOrder(r)
              ELSE UNCHANGED <<fillCalls, fills>>
  /\ UNCHANGED <<helpers, traitsCall, page, convert, quotePage,
                 watching, watchInterval,
                 timers, timersCreated, startCalls>>

RelayerNext ==
  \/ Relayer_StartWatching
  \/ Relayer_StopWatching
  \/ Relayer_Tick
  \/ Relayer_GetOrders
  \/ Relayer_Evaluate

RelayerSpec == RelayerInit /\ [][RelayerNext]_vars

(***************************************************************************)
(* RobustSwapDemo page: the amount field, the effect that asks for a quote *)
(* whenever the amount changes, and the answers of the router.             *)
(* SimpleWorkingDemoComponent has the same effect and the same getQuote.   *)
(***************************************************************************)
QuoteInit ==
  /\ Unloaded
  /\ NoTraitsCall
  /\ Mounted
  /\ NotConverted({0})
  /\ Constructed
  /\ QuoteUnset

\* getQuote of the page up to its await: nothing for an amount that is not
\* positive, else one more call of the router's getAmountsOut
Quote_GetQuote(entered) ==
  IF entered <= 0
    THEN UNCHANGED <<quoteRequests, quotesSent>>
    ELSE /\ quotesSent' = quotesSent + 1
         /\ quoteRequests' =
              quoteRequests \cup {[id |-> quotesSent + 1, input |-> entered]}

\* the effect of the first render, with provider and account set
Quote_Mount ==
  /\ quotesSent = 0
  /\ Quote_GetQuote(ethAmount)
  /\ UNCHANGED <<helpers, traitsCall, page, convert, relayer, ethAmount,
                 pageQuote>>

\* onChange of the amount field: setEthAmount, and the effect of the render
\* that follows, which calls getQuote
Quote_SetEthAmount ==
  /\ quotesSent > 0
  /\ quotesSent < MaxRequests
  /\ \E entered \in 0..MaxAmount :
       /\ entered # ethAmount
       /\ ethAmount' = entered
       /\ Quote_GetQuote(entered)
  /\ UNCHANGED <<helpers, traitsCall, page, convert, relayer, pageQuote>>

\* setQuote(expectedOutput) after the await of uniswap.getQuote
Quote_SetQuote(request, output) ==
  pageQuote' = [input |-> request.input, output |-> output]

\* a call of getAmountsOut settles: UniswapDemo.getQuote returns the amount
\* out for its input, or '0' when the call failed
Quote_Settles ==
  /\ \E request \in quoteRequests :
       /\ quoteRequests' = quoteRequests \ {request}
       /\ \E output \in {"amounts[1]", "0"} : Quote_SetQuote(request, output)
  /\ UNCHANGED <<helpers, traitsCall, page, convert, relayer, ethAmount,
                 quotesSent>>

QuoteNext ==
  \/ Quote_Mount
  \/ Quote_SetEthAmount
  \/ Quote_Settles

QuoteSpec == QuoteInit /\ [][QuoteNext]_vars

(***************************************************************************)
(* Properties.                                                             *)
(***************************************************************************)
\* the workflows that build and sign an order
OrderWorkflows ==
  {"ManualLimitOrderDemo", "Fixed1inchDemo", "OfficialSDKDemo",
   "LimitOrderDemo", "WorkingLimitOrderDemo"}

\* the log entries of a transaction handed to the wallet
Transactions ==
  {"approve", "fillOrder", "fillOrder rejected", "swap", "swap rejected",
   "router swap", "router swap rejected"}

InsufficientBalance ==
  {Failure("Insufficient WETH balance"), Failure("Insufficient ETH balance")}

\* the log entries of a balance check or an approval
Preconditions == {"balanceOf", "allowance", "approve"}

\* a call of the settlement contract's fillOrder was made
FillCalled == submitted # NoMessage

\* a fill was handed to the settlement contract and failed
FillFailed == Has("fillOrder reverted") \/ Has("fillOrder rejected")

\* a router swap was handed to the wallet
SwapCalled == Has("swap") \/ Has("swap rejected")

\* the method tags that name the settlement protocol as the path that
\* executed or was attempted
Names1inch ==
  {"Fallback Demo (Uniswap V2) - 1inch execution attempted first",
   "1inch Direct"}

\* the method tags that name Uniswap as the path that executed
NamesUniswap ==
  {"Uniswap V2 (demonstrating the same trade as the 1inch order)",
   "1inch Order Created + Uniswap Execution (Demo)",
   "Fallback Demo (Uniswap V2) - 1inch execution attempted first",
   "Uniswap V2"}

\* the workflows that can execute on the settlement protocol or on a router
TwoPathWorkflows ==
  {"OfficialSDKDemo", "Working1inchLimitOrder", "RobustSwapDemo"}

\* the results of a transaction that the methods of the run have returned
Returned == {r \in {result, fillResult, fallbackResult} : r.txTo # ""}

\* the domain descriptors in use
Domains == {DOMAIN_Manual, DOMAIN_Fixed}

\* the inputs of an order: everything the caller supplies
Inputs(o) ==
  <<o.maker, o.receiver, o.makerAsset, o.takerAsset, o.makingAmount,
    o.takingAmount>>

\* C1: in the five order workflows, a run started while the maker's balance
\* of the offered asset is below the offered amount builds no order, requests
\* no signature, sends no transaction, and ends with an insufficient-balance
\* error.
C1_InsufficientBalanceAborts ==
  (variant \in OrderWorkflows /\ runs > 0 /\ startBalance < amount) =>
    /\ ~Has("build")
    /\ ~Has("signTypedData")
    /\ \A e \in Transactions : ~Has(e)
    /\ (pc = "done" => result \in InsufficientBalance)

\* C2: in OfficialSDKDemo.runDemo and Working1inchLimitOrder.fillOrderAsTaker
\* a Uniswap swap is sent only in a run in which a settlement fillOrder was
\* submitted and failed.
C2_FallbackOnlyAfterFailedFill ==
  (variant \in {"OfficialSDKDemo", "Working1inchLimitOrder"} /\ SwapCalled)
    => FillFailed

\* C3: when the primary path of a run failed and the fallback then succeeded
\* (RobustSwapDemo.runDemo, Working1inchLimitOrder.runHackathonDemo), the
\* outcome delivered to the caller holds the primary path's error beside the
\* successful result.
C3_OriginalErrorRetained ==
  (/\ variant \in {"RobustSwapDemo", "Working1inchLimitOrder"}
   /\ caught # ""
   /\ result.status = "success")
    => caught \in result.errors

\* C4: every successful result returned by a workflow with a settlement and
\* a router path carries a method tag naming the path whose transaction was
\* confirmed: a result of a Uniswap transaction names Uniswap and names the
\* 1inch path only if a fill was submitted to it, and a result of a 1inch
\* transaction does not name Uniswap.
C4_MethodTagNamesConfirmedPath ==
  \A r \in Returned :
    (variant \in TwoPathWorkflows /\ r.status = "success") =>
      /\ r.method # ""
      /\ r.txTo = UNISWAP_ROUTER =>
           /\ r.method \in NamesUniswap
           /\ r.method \in Names1inch => Has("fillOrder")
      /\ r.txTo # UNISWAP_ROUTER =>
           /\ r.method \in Names1inch
           /\ r.method \notin NamesUniswap

\* C5: in ManualLimitOrderDemo and Fixed1inchDemo fillOrder is called only
\* when the locally computed order hash equals the hash the settlement
\* contract computes for the submitted struct.
C5_NoFillOnHashMismatch ==
  (variant \in {"ManualLimitOrderDemo", "Fixed1inchDemo"} /\ FillCalled)
    => /\ contractHash # NoHash
       /\ orderHash = contractHash

\* C6: a run goes through checking preconditions, building, signing and
\* settling in this order: no balance check or approval of the run comes
\* after the signature request, and a run that reports success has submitted
\* a fill to the settlement contract.
C6_StagesInOrder ==
  (variant \in {"ManualLimitOrderDemo", "Working1inchLimitOrder"}
   /\ ~Has("fillOrderAsTaker"))
    => /\ \A e \in Preconditions : Before(e, "signTypedData")
       /\ result.status = "success" => Has("fillOrder")

\* C7: one call of Working1inchLimitOrder.runCompleteDemo builds the order at
\* most once and asks the wallet for a signature at most once: a failed stage
\* is not attempted again.
C7_NoStageTwice ==
  variant = "Working1inchLimitOrder" =>
    /\ Count("build") <= 1
    /\ Count("signTypedData") <= 1

\* C8: the order struct handed to fillOrder has the fields of the signed
\* message, in the same order and with the same values, salt included.
C8_SubmittedStructIsSignedMessage ==
  FillCalled => submitted = signed

\* C9: createOrderHash and generateOrderHash return, for every order and
\* domain descriptor, the settlement contract's typed-data digest of the order
\* under that domain, so that a change of any order or domain field changes
\* the hash.
C9_LocalHashIsContractDigest ==
  \A i \in DOMAIN built : \A d \in Domains :
    /\ createOrderHash(built[i].order) = hashOrder(built[i].order, d)
    /\ generateOrderHash(built[i].order, d) = hashOrder(built[i].order, d)

\* C10: two orders built by two runs of Fixed1inchDemo.runDemo or
\* Working1inchLimitOrder.createManualOrderDemo from the same inputs have
\* different salts, and so different hashes, whatever the clock and the
\* random draws.
C10_FreshSaltPerRun ==
  variant \in {"Fixed1inchDemo", "Working1inchLimitOrder"} =>
    \A i, j \in DOMAIN built :
      (/\ built[i].run # built[j].run
       /\ Inputs(built[i].order) = Inputs(built[j].order))
        => /\ built[i].order.salt # built[j].order.salt
           /\ generateOrderHash(built[i].order, DOMAIN_Fixed)
                # generateOrderHash(built[j].order, DOMAIN_Fixed)

\* C11: every order handed to signTypedData offers and asks for a positive
\* amount (makingAmount > 0 and takingAmount > 0), whatever amount the run
\* was started with, zero included.
C11_SignedAmountsPositive ==
  signed # NoMessage =>
    /\ order.makingAmount > 0
    /\ order.takingAmount > 0

\* C12: whenever the wallet has signed an order, the order's maker field is
\* the address of the account that signed, whenever the user changes the
\* account selected in the wallet.
C12_MakerIsSigner ==
  signature # NoSignature => signature.signer = order.maker

\* the position of the last entry e of the log; 0 when there is none
LastIndex(e) ==
  IF Has(e)
    THEN CHOOSE i \in DOMAIN log :
           log[i] = e /\ \A j \in DOMAIN log : log[j] = e => j <= i
    ELSE 0

\* the approve calls sent since the run last read an allowance
ApprovesSinceAllowance ==
  Cardinality({i \in DOMAIN log : log[i] = "approve" /\ i > LastIndex("allowance")})

\* the helpers whose precondition step reads the allowance before approving
AllowanceCheckers == {"SimpleWorkingDemo", "LimitOrderDemo", "Working1inchLimitOrder"}

\* the run is past that step: the fill or the swap comes next
PastPreconditions ==
  pc \in {"swd_getAmountsOut", "swd_swap", "lo_estimateGas", "lo_fillOrder",
          "e_getAmountsOut", "e_swap"}

\* what the fill or the swap will spend, and what the wallet held and had
\* approved of it when the run started: USDC for the settlement contract in
\* LimitOrderDemo, WETH for the router in the two others
Required == IF variant = "LimitOrderDemo" THEN order.takingAmount ELSE amount
BalanceAtStart == IF variant = "LimitOrderDemo" THEN startChain[2] ELSE startChain[1]
AllowanceAtStart == IF variant = "LimitOrderDemo" THEN startChain[3] ELSE startChain[5]

\* C13, as stated: a run of SimpleWorkingDemo.executeSwap,
\* LimitOrderDemo.executeLimitOrder or executeFallbackDemo that is past its
\* precondition step has sent exactly one approve if it started with the
\* balance equal to the required amount and an allowance of zero, and none if
\* the allowance covered the required amount. A required amount of zero is
\* both cases at once.
C13_OneApproveOrNone ==
  (variant \in AllowanceCheckers /\ PastPreconditions) =>
    /\ (AllowanceAtStart = 0 /\ BalanceAtStart = Required)
         => ApprovesSinceAllowance = 1
    /\ AllowanceAtStart >= Required => ApprovesSinceAllowance = 0

\* C13, amended: the same for a required amount above zero; the approval has
\* been mined by then.
C13_OneApproveOrNonePositive ==
  (variant \in AllowanceCheckers /\ PastPreconditions /\ Required > 0) =>
    /\ (AllowanceAtStart = 0 /\ BalanceAtStart = Required)
         => (ApprovesSinceAllowance = 1 /\ pending = {})
    /\ AllowanceAtStart >= Required => ApprovesSinceAllowance = 0

\* a run that started with the exact balance and no allowance is about to
\* swap after one approval
C13_Witness ==
  /\ variant = "SimpleWorkingDemo"
  /\ pc = "swd_swap"
  /\ amount > 0
  /\ AllowanceAtStart = 0
  /\ BalanceAtStart = Required
  /\ ApprovesSinceAllowance = 1

\* the log entries a step leaves behind when it hands a fill or a swap to the
\* wallet
Submissions ==
  {"fillOrder rejected", "fillOrder reverted", "fillOrder confirmed",
   "swap rejected", "swap reverted", "swap confirmed",
   "router swap rejected", "router swap reverted", "router swap confirmed"}

\* this step hands a fill or a swap to the wallet
Submits ==
  /\ Len(log') > Len(log)
  /\ log'[Len(log')] \in Submissions

\* C14: a step that submits a fill or a swap is taken only when no approval
\* is pending: every approve the run sent has been mined, its wait() has
\* returned.
C14_NoSubmissionWhilePending ==
  [][Submits => pending = {}]_vars

\* a swap was confirmed in a run that had sent an approval before it
C14_Witness ==
  /\ variant = "WorkingUniswapDemo"
  /\ Has("approve")
  /\ Has("wait")
  /\ Has("swap confirmed")
  /\ pending = {}

\* C15: once the swap of a SimpleWorkingDemo run has been confirmed on-chain
\* the run returns a success result, whether or not the run sent an approval.
C15_ConfirmedSwapSucceeds ==
  (/\ variant = "SimpleWorkingDemo"
   /\ pc = "done"
   /\ Has("swap confirmed")) => result.status = "success"

\* the message of the failure that ended the 1inch direct attempt of a
\* finished RobustSwapDemo run, "" when that attempt did not fail
DirectFailure ==
  IF pc # "done" \/ log = <<>> THEN ""
  ELSE CASE log[Len(log)] = "estimateGas" -> "cannot estimate gas"
         [] log[Len(log)] = "router swap rejected" -> "transaction rejected"
         [] log[Len(log)] = "router swap reverted" -> "execution reverted"
         [] OTHER -> ""

\* C16: when the Uniswap attempt and the 1inch direct attempt of a
\* RobustSwapDemo run have both failed, the run ends with an error and no
\* result, and the error holds the message of the first failure and the
\* message of the second.
C16_BothMessagesShown ==
  (/\ variant = "RobustSwapDemo"
   /\ caught # ""
   /\ DirectFailure # "")
    => /\ result.status = "error"
       /\ result.method = ""
       /\ result.txTo = ""
       /\ caught \in result.errors
       /\ DirectFailure \in result.errors

\* both attempts failed, with different messages
C16_Witness ==
  /\ variant = "RobustSwapDemo"
  /\ caught = "getAmountsOut failed"
  /\ DirectFailure = "transaction rejected"
  /\ result.errors = {caught, DirectFailure}

\* C17: a ManualLimitOrderDemo run that fails at the taker's USDC balance
\* check, before any fill is submitted, leaves the chain state (balances and
\* allowances) as it was when the run started.
C17_NoTraceBeforeFill ==
  (/\ variant = "ManualLimitOrderDemo"
   /\ pc = "done"
   /\ ~FillCalled
   /\ result = Failure("Insufficient USDC")) => chain = startChain

\* the log entries of the queries made on the settlement contract before a
\* fill is submitted
SettlementQueries ==
  {"hashOrder", "remainingInvalidatorForOrder", "simulate", "estimateGas"}

\* the last step of the run was a query on the settlement contract
EndedAtQuery ==
  /\ pc = "done"
  /\ log # <<>>
  /\ log[Len(log)] \in SettlementQueries

\* C18: in ManualLimitOrderDemo and Working1inchLimitOrder no run ends with
\* an error at a pre-submission query on the settlement contract: a query
\* that fails is skipped and the run goes on to the next step.
C18_QueriesBestEffort ==
  (/\ variant \in {"ManualLimitOrderDemo", "Working1inchLimitOrder"}
   /\ EndedAtQuery) => result.status # "error"

C20_DeadlineFromSubmission ==
  swapCall.called => swapCall.deadline = Deadline(swapCall.at)

\* the partial-fill and the multiple-fill flag are both set in a traits
\* value, under the layout of one of the traits builders
FillFlagsSet(t) ==
  \/ {255, 254} \subseteq t
  \/ {0, 1} \subseteq t

\* C21: for an input of one unit, the order signed by ManualLimitOrderDemo
\* and by Fixed1inchDemo offers one unit (10^18 wei), asks for 2500 units of
\* the 6-decimals asset, and has the partial-fill and the multiple-fill flag
\* set in its traits. Amounts are in whole units of each asset.
C21_ScenarioAOrder ==
  (/\ variant \in {"ManualLimitOrderDemo", "Fixed1inchDemo"}
   /\ amount = 1
   /\ signed # NoMessage)
    => /\ order.makingAmount = 1
       /\ order.takingAmount = UsdcPerEth
       /\ FillFlagsSet(order.makerTraits)

\* the bit of the partial-fill flag and of the multiple-fill flag in the
\* layout of each builder
PartialFillBit(b) == IF b = "createProperMakerTraits" THEN 0 ELSE 255
MultipleFillBit(b) == IF b = "createProperMakerTraits" THEN 1 ELSE 254

\* the field of width bits at offset, read back from a traits value
Field(t, offset, width) ==
  {i - offset : i \in {j \in t : j >= offset /\ j < offset + width}}

\* traits >> shift
ShiftRight(t, shift) == {i - shift : i \in {j \in t : j >= shift}}

\* C22: a traits value built by one builder decodes to the same flags under
\* the layout of every other builder: both fill flags, which every builder
\* sets, are found set at the positions the other builders use.
C22_OneLayout ==
  builder # "" =>
    \A other \in Builders :
      /\ PartialFillBit(other) \in traits
      /\ MultipleFillBit(other) \in traits

\* C24: the flags and the expiration occupy disjoint bits of the traits
\* value and are each read back unchanged, for every expiration below 2^40:
\* createProperMakerTraits sets bits 0 and 1 and traits >> 160 is the
\* expiration; createAdvancedMakerTraits sets bits 255 and 254 and bits
\* 160..199 are the expiration.
C24_FieldsRecovered ==
  /\ builder = "createProperMakerTraits" =>
       /\ 0 \in traits
       /\ 1 \in traits
       /\ ShiftRight(traits, ExpirationShift) = expiry
       /\ Cardinality(traits) = Cardinality(expiry) + 2
  /\ builder = "createAdvancedMakerTraits" =>
       /\ 255 \in traits
       /\ 254 \in traits
       /\ Field(traits, ExpirationShift, ExpirationWidth) = expiry
       /\ Cardinality(traits) = Cardinality(expiry) + 2

\* createAdvancedMakerTraits was called with an expiration whose lowest and
\* highest bit are set
C24_Witness ==
  /\ builder = "createAdvancedMakerTraits"
  /\ expiry = {0, ExpirationWidth - 1}
  /\ traits = {160, 199, 254, 255}

\* C23: in Working1inchDemo at most one helper call is in flight: no order
\* is being created while an order is being filled, and the order being
\* filled stays the order of the page's result until the fill has settled.
C23_OneRunInFlight ==
  /\ ~(creating /\ filling # 0)
  /\ filling # 0 => pageResult = filling

\* the 1inch direct swap of the run was handed to the wallet
DirectSwapSent ==
  \/ Has("router swap")
  \/ Has("router swap rejected")

\* C25: in a RobustSwapDemo run the 1inch direct swap is sent only after the
\* Uniswap attempt has thrown, and at most one swap of the entered amount
\* executes on-chain: the ETH spent in the run never exceeds the amount.
C25_AtMostOneSwapExecutes ==
  variant = "RobustSwapDemo" =>
    /\ DirectSwapSent => caught # ""
    /\ startChain[1] - balance <= amount

C27_OneRoundAtATime ==
  /\ Cardinality(InFlight) <= 1
  /\ Len(fills) <= 1

C29_OneTimerWhileWatching ==
  /\ Cardinality(timers) <= 1
  /\ watching <=> timers # {}
  /\ watching => timers = {watchInterval}

\* startWatching was called while already watching, after a stop and a
\* restart
C29_Witness ==
  /\ watching
  /\ timersCreated = 2
  /\ startCalls > timersCreated
  /\ timers = {2}

\* C30: once no quote request is pending, the quote the page shows for a
\* positive amount is the answer to the request made for that amount.
C30_QuoteOfEnteredAmount ==
  (quotesSent > 0 /\ quoteRequests = {} /\ ethAmount > 0)
    => pageQuote.input = ethAmount

====
